---------------------------- MODULE Spec2Model ----------------------------
(***************************************************************************)
(* A model of the duktape binding layer: the stack machine adapter         *)
(* (src/src/lib.rs), the value protocol (src/src/value.rs), the serde      *)
(* bridge (src/src/serialize.rs) and the generated trampolines             *)
(* (src/duktape-macros/src/lib.rs).                                        *)
(*                                                                         *)
(* The engine is the external collaborator: its value stack is a sequence  *)
(* of engine values, index 0 at the bottom, and each duk_* call the        *)
(* adapter makes is modelled by the engine's C contract (duk_require_*     *)
(* throws on a wrong type or an invalid index, duk_get_prop pushes         *)
(* undefined and returns 0 for a missing property).  An engine error       *)
(* thrown outside a protected call reaches the fatal handler of            *)
(* Context::default, which panics: the process is gone.                    *)
(***************************************************************************)
EXTENDS Integers, Sequences, FiniteSets, TLC

VARIABLES
    stack,      \* the engine's value stack of the one Context
    strong,     \* strong count of each Rc allocation (0: freed)
    handles,    \* live native Rc handles per allocation
    globals,    \* the engine's global object: name -> registered function
    aborted,    \* the process panicked or hit the engine's fatal handler
    heap,       \* the engine heap: duk_destroy_heap calls so far, owner alive
    ser,        \* the DuktapeSerializer of a push in progress
    last        \* the operation the last step performed, with its outcome

vars == <<stack, strong, handles, globals, aborted, heap, ser, last>>

(***************************************************************************)
(* Bounds of the model.                                                    *)
(***************************************************************************)
MaxDepth == 2       \* deepest value stack explored
MaxAllocs == 2      \* Rc allocations
MaxHandles == 2     \* native handles per allocation created by the host
MaxSum == 6         \* largest sum a wrapped function leaves on the stack
MaxDestroys == 2    \* duk_destroy_heap calls followed on one heap

(***************************************************************************)
(* Integer widths.                                                         *)
(* TLC's integers are 32-bit signed: i32 is their whole range and          *)
(* u32::MAX lies outside it.  The numbers the model holds stay within      *)
(* 2^30 in magnitude, so the upper clamp of duk_require_uint never applies *)
(* to one of them.                                                         *)
(***************************************************************************)

I32Min == -(2^30) - 2^30
I32Max == (2^30 - 1) + 2^30
F32Exact == 2^24    \* every integer up to 2^24 in magnitude is an f32
Big == 2^30

\* The(S) is the element of a singleton S.  {e(r) : r \in {x}} names an
\* intermediate result x as r, so that it is computed once.
The(S) == CHOOSE e \in S : TRUE

Clamp(x, lo, hi) == IF x < lo THEN lo ELSE IF x > hi THEN hi ELSE x

\* Rust `x as uN` / `x as iN` on an integer: keep the low N bits.
AsUnsigned(x, bits) == x % (2^bits)
AsSigned(x, bits) ==
    LET m == x % (2^bits) IN IF m >= 2^(bits - 1) THEN m - 2^bits ELSE m

\* Rust `x as f32` on an f64 holding an integer: exact up to 2^24, then
\* rounded to the 24-bit mantissa (a multiple of Ulp), ties to even.
RECURSIVE Ulp(_)
Ulp(a) == IF a < F32Exact THEN 1 ELSE 2 * Ulp(a \div 2)
AsF32(x) ==
    LET a == IF x < 0 THEN -x ELSE x
        u == Ulp(a)
        q == a \div u
        rem == a % u
        r == IF 2 * rem < u THEN q * u
             ELSE IF 2 * rem > u THEN (q + 1) * u
             ELSE IF q % 2 = 0 THEN q * u ELSE (q + 1) * u
    IN  IF x < 0 THEN -r ELSE r

(***************************************************************************)
(* Engine values.                                                          *)
(***************************************************************************)
DukUndefined == [t |-> "undefined"]
DukNull == [t |-> "null"]
DukNumber(n) == [t |-> "number", n |-> n]
DukBoolean(b) == [t |-> "boolean", b |-> b]
DukString(s) == [t |-> "string", s |-> s]
DukPointer(a) == [t |-> "pointer", a |-> a]
DukObject(p) == [t |-> "object", p |-> p]
DukArray(e) == [t |-> "array", e |-> e]
DukFunction(f, nargs) == [t |-> "function", f |-> f, nargs |-> nargs]
DukError == [t |-> "error"]     \* an Error object thrown by the engine

\* duk_is_object: arrays and functions are objects too.
IsObject(v) == v.t \in {"object", "array", "function", "error"}

(***************************************************************************)
(* Property keys are byte strings (duk_put_prop_lstring takes the bytes    *)
(* of the name): str::as_bytes of the names the model uses.                *)
(***************************************************************************)
as_bytes(name) ==
    CASE name = "hello"  -> <<104, 101, 108, 108, 111>>
      [] name = "num"    -> <<110, 117, 109>>
      [] name = "__rc"   -> <<95, 95, 114, 99>>
      [] name = "__type" -> <<95, 95, 116, 121, 112, 101>>
      [] name = "a"      -> <<97>>
      [] name = "b"      -> <<98>>
      [] name = "t"      -> <<116>>
      [] name = "data"   -> <<100, 97, 116, 97>>
      [] name = "counter" -> <<99, 111, 117, 110, 116, 101, 114>>
      [] name = "x"      -> <<120>>
      [] name = "sumFields" -> <<115, 117, 109, 70, 105, 101, 108, 100, 115>>
      [] name = "toString" -> <<116, 111, 83, 116, 114, 105, 110, 103>>
      [] name = "toInt" -> <<116, 111, 73, 110, 116>>

(***************************************************************************)
(* The stack machine adapter (impl Context).  Every operator takes the     *)
(* stack and returns the new stack or the value read.                      *)
(***************************************************************************)
stack_len(st) == Len(st)

\* duk_get_top_index: DUK_INVALID_INDEX (negative) on an empty stack, which
\* try_into::<u32>().unwrap() turns into a panic.
stack_top_panics(st) == Len(st) = 0
stack_top(st) == Len(st) - 1

\* duk_normalize_index / duk_is_valid_index
normalize_index(st, idx) == IF idx < 0 THEN Len(st) + idx ELSE idx
is_valid_index(st, idx) == normalize_index(st, idx) \in 0 .. (Len(st) - 1)
slot(st, idx) == st[normalize_index(st, idx) + 1]
has_type(st, idx, t) == is_valid_index(st, idx) /\ slot(st, idx).t = t

push_value(st, v) == Append(st, v)
push_null(st) == push_value(st, DukNull)
push_undefined(st) == push_value(st, DukUndefined)
push_double(st, value) == push_value(st, DukNumber(value))
push_bool(st, value) == push_value(st, DukBoolean((IF value THEN 1 ELSE 0) /= 0))
push_int(st, value) == push_value(st, DukNumber(value))
push_uint(st, value) == push_value(st, DukNumber(value))
push_string(st, value) == push_value(st, DukString(value))
push_pointer(st, p) == push_value(st, DukPointer(p))
\* push_object / push_array return the index of the new slot: Len(st).
push_object(st) == push_value(st, DukObject(<<>>))
push_array(st) == push_value(st, DukArray(<<>>))

\* duk_pop / duk_pop_n throw on too short a stack (see the callers' guards).
pop_it(st) == SubSeq(st, 1, Len(st) - 1)
pop_n(st, n) == SubSeq(st, 1, Len(st) - n)

PutKey(p, key, v) == [k \in (DOMAIN p) \cup {key} |-> IF k = key THEN v ELSE p[k]]

\* duk_put_prop_lstring(obj_id, key): binds the value on top of the stack
\* under key in the object at obj_id and pops the value.
put_prop_bytes(st, obj_id, val) ==
    LET v == st[Len(st)]
        st1 == pop_it(st)
        o == slot(st1, obj_id)
    IN  [st1 EXCEPT ![normalize_index(st1, obj_id) + 1] =
            [o EXCEPT !.p = PutKey(o.p, val, v)]]
put_prop_string(st, obj_id, val) == put_prop_bytes(st, obj_id, as_bytes(val))

\* duk_put_prop_index(obj_id, idx): element idx of the array at obj_id.
put_prop_index(st, obj_id, idx) ==
    LET v == st[Len(st)]
        st1 == pop_it(st)
        o == slot(st1, obj_id)
    IN  [st1 EXCEPT ![normalize_index(st1, obj_id) + 1] =
            [o EXCEPT !.e = [i \in 1 .. (IF idx + 1 > Len(o.e) THEN idx + 1 ELSE Len(o.e)) |->
                                IF i = idx + 1 THEN v
                                ELSE IF i <= Len(o.e) THEN o.e[i] ELSE DukUndefined]]]

\* duk_get_prop_lstring(idx, name): throws when the value at idx is
\* undefined or null (not object coercible) or the index is invalid; else
\* pushes the property value, or undefined when the property is missing,
\* and returns whether it was found.  A primitive (number, string, boolean,
\* pointer) is looked up through its prototype, which has none of the
\* names the model uses.
get_prop_throws(st, idx) ==
    \/ ~is_valid_index(st, idx)
    \/ slot(st, idx).t \in {"undefined", "null"}
get_prop_found(st, idx, name) ==
    /\ slot(st, idx).t = "object"
    /\ name \in DOMAIN slot(st, idx).p
get_prop_bytes(st, idx, name) ==
    IF get_prop_found(st, idx, name)
    THEN push_value(st, slot(st, idx).p[name])
    ELSE push_value(st, DukUndefined)
get_prop(st, idx, name) == get_prop_bytes(st, idx, as_bytes(name))

\* duk_require_*: the typed getters; each throws unless *_ok.
get_bool_ok(st, idx) == has_type(st, idx, "boolean")
get_bool(st, idx) == (IF slot(st, idx).b THEN 1 ELSE 0) > 0
get_number_ok(st, idx) == has_type(st, idx, "number")
get_number(st, idx) == slot(st, idx).n
get_uint(st, idx) == IF slot(st, idx).n < 0 THEN 0 ELSE slot(st, idx).n
get_int(st, idx) == Clamp(slot(st, idx).n, I32Min, I32Max)
get_string_ok(st, idx) == has_type(st, idx, "string")
get_string(st, idx) == slot(st, idx).s
get_pointer_ok(st, idx) == has_type(st, idx, "pointer")
get_pointer(st, idx) == slot(st, idx).a
get_object_ok(st, idx) == is_valid_index(st, idx) /\ IsObject(slot(st, idx))

\* duk_get_type_mask & (NULL | UNDEFINED): an invalid index has type none.
is_null_or_undefined(st, idx) ==
    is_valid_index(st, idx) /\ slot(st, idx).t \in {"undefined", "null"}


(***************************************************************************)
(* Native types and values.  A native value is a record with its type in   *)
(* ty; the types are those the crate and its tests give the two            *)
(* capabilities to.                                                        *)
(***************************************************************************)
IntTypes == {"u8", "u16", "u32", "i8", "i16", "i32"}
FloatTypes == {"f32", "f64"}
ScalarTypes == {"bool", "String"} \cup IntTypes \cup FloatTypes
OptionTypes == {"Option<u32>"}
RcTypes == {"Rc<Vec<u32>>", "Rc<Vec<u8>>"}
OptionRcTypes == {"Option<Rc<Vec<u32>>>", "Option<Rc<Vec<u8>>>"}
Int64Types == {"i64", "u64"}
\* #[derive(Serialize, Deserialize)]: T of serialize.rs (deserialize_obj),
\* Wide { num: u64 }, TOpt { num: Option<u32> } and, pushed as
\* SerdeValue, ObjData { data: Vec<u8> }.
SerdeRecordTypes == {"T", "Wide", "TOpt", "ObjData"}
\* #[derive(Value)]: Test { a, b }, Pdo { data, counter },
\* ObjBuf { #[data] #[serde(with = "serde_bytes")] data: Vec<u8> } and
\* HiddenObj { #[hidden] data: u32, x: u32 }, ObjArr { data: Vec<u8> } and
\* ObjRc { t: Rc<Vec<u8>> }.
DerivedTypes == {"Test", "Pdo", "ObjBuf", "HiddenObj", "ObjArr", "ObjRc"}
SeqTypes == {"Vec<u8>"}
RecordSeqTypes == {"Vec<T>"}    \* a sequence of serde records
BytesTypes == {"serde_bytes"}   \* a Vec<u8> under #[serde(with = "serde_bytes")]

Inner(ty) ==
    CASE ty = "Option<u32>"  -> "u32"
      [] ty = "Rc<Vec<u32>>" -> "Vec<u32>"
      [] ty = "Rc<Vec<u8>>"  -> "Vec<u8>"
      [] ty = "Vec<u8>"      -> "u8"
      [] ty = "Vec<T>"       -> "T"
      [] ty = "Option<Rc<Vec<u32>>>" -> "Rc<Vec<u32>>"
      [] ty = "Option<Rc<Vec<u8>>>"  -> "Rc<Vec<u8>>"

\* The fields of a record type, in declaration order.
Fields(ty) ==
    CASE ty = "T"    -> <<[name |-> "hello", ty |-> "String"], [name |-> "num", ty |-> "u32"]>>
      [] ty = "Wide" -> <<[name |-> "num", ty |-> "u64"]>>
      [] ty = "TOpt" -> <<[name |-> "num", ty |-> "Option<u32>"]>>
      [] ty = "ObjData" -> <<[name |-> "data", ty |-> "Vec<u8>"]>>
      [] ty = "Test" -> <<[name |-> "a", ty |-> "u32", is_data |-> FALSE, is_hidden |-> FALSE],
                          [name |-> "b", ty |-> "u32", is_data |-> FALSE, is_hidden |-> FALSE]>>
      [] ty = "Pdo"  -> <<[name |-> "data", ty |-> "String", is_data |-> FALSE, is_hidden |-> FALSE],
                          [name |-> "counter", ty |-> "u32", is_data |-> FALSE, is_hidden |-> FALSE]>>
      [] ty = "ObjBuf" ->
            <<[name |-> "data", ty |-> "serde_bytes", is_data |-> TRUE, is_hidden |-> FALSE]>>
      [] ty = "ObjArr" ->
            <<[name |-> "data", ty |-> "Vec<u8>", is_data |-> FALSE, is_hidden |-> FALSE]>>
      [] ty = "ObjRc" ->
            <<[name |-> "t", ty |-> "Rc<Vec<u8>>", is_data |-> FALSE, is_hidden |-> FALSE]>>
      [] ty = "HiddenObj" ->
            <<[name |-> "data", ty |-> "u32", is_data |-> FALSE, is_hidden |-> TRUE],
              [name |-> "x", ty |-> "u32", is_data |-> FALSE, is_hidden |-> FALSE]>>

\* #[duktape(Methods(...))] of a derived type: the external name, the method
\* it names and the arity its marker type reports.
Methods(ty) ==
    CASE ty = "Test" -> <<[name |-> "sumFields", method |-> "sum_fields", args |-> 0]>>
      [] ty = "ObjRc" -> <<[name |-> "toString", method |-> "to_string", args |-> 0],
                           [name |-> "toInt", method |-> "to_int", args |-> 0]>>
      [] OTHER -> <<>>

\* #[duktape(this = "Test")] fn sum_fields(&self) -> u32: `args` holds the
\* typed parameters only, the receiver is skipped.
SumFields ==
    [struct |-> "SumFields", name |-> "sum_fields", this |-> "Test", args |-> <<>>,
     ret |-> "u32", vararg |-> FALSE]
\* #[duktape(this = "Obj")] fn to_int(&self) -> u32 and fn to_string(&self)
\* -> String of the record with the Rc field.
ToInt ==
    [struct |-> "ToInt", name |-> "to_int", this |-> "ObjRc", args |-> <<>>,
     ret |-> "u32", vararg |-> FALSE]
ToString_ ==
    [struct |-> "ToString", name |-> "to_string", this |-> "ObjRc", args |-> <<>>,
     ret |-> "String", vararg |-> FALSE]
MethodDecls == {SumFields, ToInt, ToString_}
MethodOf(name) == CHOOSE m \in MethodDecls : m.name = name

\* inflections::case::to_snake_case of the allow-listed names.
to_snake_case(name) ==
    CASE name = "sumFields" -> "sum_fields"
      [] name = "toString" -> "to_string"
      [] name = "toInt" -> "to_int"
      [] OTHER -> name

\* method_args_count = raw_args_count + 1 (self), or -1 for vararg.
method_args_count(m) == IF m.vararg THEN -1 ELSE (Len(m.args) - 1) + 1

Unit == [ty |-> "()"]
Nil == [ty |-> "!"]     \* no value: the payload of a failed read

(***************************************************************************)
(* The serializer bridge (impl Serializer for &mut DuktapeSerializer).     *)
(* A serializer state is the stack and the bookkeeping list `objects`; a   *)
(* result is [ok, st, objects], ok = FALSE for Err(Error::unsupported()).  *)
(***************************************************************************)
SerOk(st, objects) == [ok |-> TRUE, st |-> st, objects |-> objects]
SerErr(st, objects) == [ok |-> FALSE, st |-> st, objects |-> objects]

serialize_bool(v, st, objects) == SerOk(push_bool(st, v), objects)
serialize_i8(v, st, objects) == SerOk(push_int(st, v), objects)
serialize_u8(v, st, objects) == SerOk(push_uint(st, v), objects)
serialize_i16(v, st, objects) == SerOk(push_int(st, v), objects)
serialize_u16(v, st, objects) == SerOk(push_uint(st, v), objects)
serialize_i32(v, st, objects) == SerOk(push_int(st, v), objects)
serialize_u32(v, st, objects) == SerOk(push_uint(st, v), objects)
serialize_i64(v, st, objects) == SerErr(st, objects)
serialize_u64(v, st, objects) == SerErr(st, objects)
serialize_f64(v, st, objects) == SerOk(push_double(st, v), objects)
serialize_f32(v, st, objects) == SerOk(push_double(st, v), objects)
serialize_str(v, st, objects) == SerOk(push_string(st, v), objects)
serialize_bytes(v, st, objects) == SerErr(st, objects)
serialize_none(st, objects) == SerOk(push_null(st), objects)
serialize_unit(st, objects) == SerOk(st, objects)
\* serialize_seq / serialize_struct open a container and note it in objects.
serialize_seq(st, objects) == SerOk(push_array(st), Append(objects, Len(st)))
serialize_struct(st, objects) == SerOk(push_object(st), Append(objects, Len(st)))
\* Faulty variant: end leaves the bookkeeping entry in place.
serialize_end_keep(st, objects) == SerOk(st, objects)

\* SerializeSeq::end / SerializeStruct::end: objects.pop()
serialize_end(st, objects) == SerOk(st, SubSeq(objects, 1, Len(objects) - 1))

RECURSIVE serialize(_, _, _)
RECURSIVE serialize_fields(_, _, _, _, _)
RECURSIVE serialize_elements(_, _, _, _, _)

\* SerializeStruct::serialize_field for fields i.. of a record: the value is
\* serialized, then bound under its key in the object objects.last().
serialize_fields(ty, f, i, st, objects) ==
    IF i > Len(f) THEN serialize_end(st, objects)
    ELSE The({IF ~r.ok THEN r
              ELSE serialize_fields(ty, f, i + 1,
                       put_prop_string(r.st, r.objects[Len(r.objects)], Fields(ty)[i].name),
                       r.objects)
              : r \in {serialize(f[i], st, objects)}})

\* SerializeSeq::serialize_element for elements i.. of a sequence whose
\* array is at obj_id; array_idx = i - 1.
serialize_elements(e, i, obj_id, st, objects) ==
    IF i > Len(e) THEN serialize_end(st, objects)
    ELSE The({IF ~r.ok THEN r
              ELSE serialize_elements(e, i + 1, obj_id,
                       put_prop_index(r.st, obj_id, i - 1), r.objects)
              : r \in {serialize(e[i], st, objects)}})

\* T::serialize(&mut serializer): the Serialize impl of each native type.
serialize(v, st, objects) ==
    CASE v.ty = "bool"   -> serialize_bool(v.b, st, objects)
      [] v.ty = "i8"     -> serialize_i8(v.n, st, objects)
      [] v.ty = "u8"     -> serialize_u8(v.n, st, objects)
      [] v.ty = "i16"    -> serialize_i16(v.n, st, objects)
      [] v.ty = "u16"    -> serialize_u16(v.n, st, objects)
      [] v.ty = "i32"    -> serialize_i32(v.n, st, objects)
      [] v.ty = "u32"    -> serialize_u32(v.n, st, objects)
      [] v.ty = "i64"    -> serialize_i64(v.n, st, objects)
      [] v.ty = "u64"    -> serialize_u64(v.n, st, objects)
      [] v.ty = "f32"    -> serialize_f32(v.n, st, objects)
      [] v.ty = "f64"    -> serialize_f64(v.n, st, objects)
      [] v.ty = "String" -> serialize_str(v.s, st, objects)
      [] v.ty = "()"     -> serialize_unit(st, objects)
      [] v.ty \in BytesTypes -> serialize_bytes(v.e, st, objects)
      [] v.ty \in OptionTypes ->
            IF v.some THEN serialize(v.v, st, objects) ELSE serialize_none(st, objects)
      [] v.ty \in SeqTypes \cup RecordSeqTypes ->
            LET r == serialize_seq(st, objects)
            IN  serialize_elements(v.e, 1, Len(st), r.st, r.objects)
      [] v.ty \in SerdeRecordTypes ->
            LET r == serialize_struct(st, objects)
            IN  serialize_fields(v.ty, v.f, 1, r.st, r.objects)

(***************************************************************************)
(* The deserializer bridge (impl Deserializer for &mut DuktapeDeserializer).*)
(* A result is [res, val, err, st]: res = "Ok" with the value read, "Err"  *)
(* with the serialize::Error message, or "Throw" when a duk_require_* call *)
(* raised an engine error, or "Panic" at a todo!().                        *)
(***************************************************************************)
DeOk(val, st) == [res |-> "Ok", val |-> val, err |-> "", st |-> st]
DeErr(err, st) == [res |-> "Err", val |-> Nil, err |-> err, st |-> st]
DeThrow(st) == [res |-> "Throw", val |-> Nil, err |-> "", st |-> st]
DePanic(st) == [res |-> "Panic", val |-> Nil, err |-> "", st |-> st]

deserialize_bool(st, stack_idx) ==
    IF ~get_bool_ok(st, stack_idx) THEN DeThrow(st)
    ELSE DeOk([ty |-> "bool", b |-> get_bool(st, stack_idx)], st)
\* Faulty variant: i8 read through the unsigned getter.
deserialize_i8_via_uint(st, stack_idx) ==
    IF ~get_number_ok(st, stack_idx) THEN DeThrow(st)
    ELSE DeOk([ty |-> "i8", n |-> AsSigned(AsUnsigned(get_uint(st, stack_idx), 8), 16)], st)
deserialize_i8(st, stack_idx) ==
    IF ~get_number_ok(st, stack_idx) THEN DeThrow(st)
    ELSE DeOk([ty |-> "i8", n |-> AsSigned(get_int(st, stack_idx), 8)], st)
deserialize_i16(st, stack_idx) ==
    IF ~get_number_ok(st, stack_idx) THEN DeThrow(st)
    ELSE DeOk([ty |-> "i16", n |-> AsSigned(get_int(st, stack_idx), 16)], st)
deserialize_i32(st, stack_idx) ==
    IF ~get_number_ok(st, stack_idx) THEN DeThrow(st)
    ELSE DeOk([ty |-> "i32", n |-> get_int(st, stack_idx)], st)
deserialize_i64(st, stack_idx) == DeErr("not implemented", st)
deserialize_u8(st, stack_idx) ==
    IF ~get_number_ok(st, stack_idx) THEN DeThrow(st)
    ELSE DeOk([ty |-> "u8", n |-> AsUnsigned(get_uint(st, stack_idx), 8)], st)
deserialize_u16(st, stack_idx) ==
    IF ~get_number_ok(st, stack_idx) THEN DeThrow(st)
    ELSE DeOk([ty |-> "u16", n |-> AsUnsigned(get_uint(st, stack_idx), 16)], st)
deserialize_u32(st, stack_idx) ==
    IF ~get_number_ok(st, stack_idx) THEN DeThrow(st)
    ELSE DeOk([ty |-> "u32", n |-> get_uint(st, stack_idx)], st)
deserialize_u64(st, stack_idx) == DeErr("not implemented", st)
deserialize_f32(st, stack_idx) ==
    IF ~get_number_ok(st, stack_idx) THEN DeThrow(st)
    ELSE DeOk([ty |-> "f32", n |-> AsF32(get_number(st, stack_idx))], st)
deserialize_f64(st, stack_idx) ==
    IF ~get_number_ok(st, stack_idx) THEN DeThrow(st)
    ELSE DeOk([ty |-> "f64", n |-> get_number(st, stack_idx)], st)
deserialize_string(st, stack_idx) ==
    IF ~get_string_ok(st, stack_idx) THEN DeThrow(st)
    ELSE DeOk([ty |-> "String", s |-> get_string(st, stack_idx)], st)
deserialize_byte_buf(st, stack_idx) == DeErr("not implemented", st)
\* todo!("figure out how to check for null")
deserialize_option(st, stack_idx) == DePanic(st)
deserialize_unit(st, stack_idx) == DeOk(Unit, st)
deserialize_seq(st, stack_idx) == DeErr("not implemented", st)

RECURSIVE deserialize(_, _, _)
RECURSIVE next_element_seed(_, _, _, _, _)

\* visit_seq of a derived Deserialize over DuktapeStructDeserializer: one
\* next_element_seed per declared field, from field idx + 1 on (acc holds the
\* fields read so far).  The property is looked up on the object at stack
\* index 0 (get_prop(prop_name, 0)); obj_idx is stored but not read.
next_element_seed(ty, idx, obj_idx, acc, st) ==
    IF idx >= Len(Fields(ty)) THEN DeOk([ty |-> ty, f |-> acc], st)
    ELSE LET prop_name == Fields(ty)[idx + 1].name IN
         IF get_prop_throws(st, 0) THEN DeThrow(st)
         ELSE IF ~get_prop_found(st, 0, as_bytes(prop_name))
              THEN DeErr("incorrect field", get_prop(st, 0, prop_name))
         ELSE The({IF r.res /= "Ok" THEN r
                   ELSE next_element_seed(ty, idx + 1, obj_idx, Append(acc, r.val), pop_it(r.st))
                   : r \in {deserialize(Fields(ty)[idx + 1].ty, get_prop(st, 0, prop_name), -1)}})

\* deserialize_struct: require an object at stack_idx, visit the fields,
\* then self.inner.pop().
deserialize_struct(ty, st, stack_idx) ==
    IF ~get_object_ok(st, stack_idx) THEN DeThrow(st)
    ELSE The({IF r.res /= "Ok" THEN r
              ELSE IF Len(r.st) = 0 THEN DeThrow(r.st)
              ELSE DeOk(r.val, pop_it(r.st))
              : r \in {next_element_seed(ty, 0, stack_idx, <<>>, st)}})

\* T::deserialize(&mut deserializer): the Deserialize impl of each type.
deserialize(ty, st, stack_idx) ==
    CASE ty = "bool"   -> deserialize_bool(st, stack_idx)
      [] ty = "i8"     -> deserialize_i8(st, stack_idx)
      [] ty = "i16"    -> deserialize_i16(st, stack_idx)
      [] ty = "i32"    -> deserialize_i32(st, stack_idx)
      [] ty = "i64"    -> deserialize_i64(st, stack_idx)
      [] ty = "u8"     -> deserialize_u8(st, stack_idx)
      [] ty = "u16"    -> deserialize_u16(st, stack_idx)
      [] ty = "u32"    -> deserialize_u32(st, stack_idx)
      [] ty = "u64"    -> deserialize_u64(st, stack_idx)
      [] ty = "f32"    -> deserialize_f32(st, stack_idx)
      [] ty = "f64"    -> deserialize_f64(st, stack_idx)
      [] ty = "String" -> deserialize_string(st, stack_idx)
      [] ty = "()"     -> deserialize_unit(st, stack_idx)
      [] ty \in BytesTypes -> deserialize_byte_buf(st, stack_idx)
      [] ty \in OptionTypes -> deserialize_option(st, stack_idx)
      [] ty \in SeqTypes -> deserialize_seq(st, stack_idx)
      [] ty \in SerdeRecordTypes -> deserialize_struct(ty, st, stack_idx)

(***************************************************************************)
(* The value protocol (value.rs).  A world w is the stack together with    *)
(* the Rc bookkeeping and the heap: [st, strong, handles, heap].  push_to  *)
(* returns                                                                 *)
(* [res, ret, w] with res = "Ok" or "Panic"; peek_at and pop return        *)
(* [res, val, err, w] with res = "Ok", "Err" (a PeekError), "Throw" (an    *)
(* engine error raised by a typed getter) or "Panic".                      *)
(***************************************************************************)
World(st, s, h, hp) == [st |-> st, strong |-> s, handles |-> h, heap |-> hp]

PushOk(ret, w) == [res |-> "Ok", ret |-> ret, w |-> w]
PushPanic(w) == [res |-> "Panic", ret |-> -1, w |-> w]

NoErr == [e |-> ""]
PeekErrorDeserialize(msg) == [e |-> "Deserialize", msg |-> msg]
PeekErrorProp(name) == [e |-> "Prop", name |-> name]
PeekErrorInternal == [e |-> "Internal"]

PeekOk(val, w) == [res |-> "Ok", val |-> val, err |-> NoErr, w |-> w]
PeekErr(err, w) == [res |-> "Err", val |-> Nil, err |-> err, w |-> w]
PeekThrow(w) == [res |-> "Throw", val |-> Nil, err |-> NoErr, w |-> w]
PeekPanic(w) == [res |-> "Panic", val |-> Nil, err |-> NoErr, w |-> w]

\* impl PushValue for SerdeValue<&T>: serialize, unwrap, stack_top().
SerdeValue_push_to(v, w) ==
    The({IF ~r.ok \/ stack_top_panics(r.st) THEN PushPanic([w EXCEPT !.st = r.st])
         ELSE PushOk(stack_top(r.st), [w EXCEPT !.st = r.st])
         : r \in {serialize(v, w.st, <<>>)}})

\* impl PeekValue for SerdeValue<T>: deserialize at idx, `?` on the error.
SerdeValue_peek_at(ty, w, idx) ==
    The({CASE r.res = "Ok" -> PeekOk(r.val, [w EXCEPT !.st = r.st])
           [] r.res = "Err" -> PeekErr(PeekErrorDeserialize(r.err), [w EXCEPT !.st = r.st])
           [] r.res = "Throw" -> PeekThrow([w EXCEPT !.st = r.st])
           [] r.res = "Panic" -> PeekPanic([w EXCEPT !.st = r.st])
         : r \in {deserialize(ty, w.st, idx)}})

\* Rc::into_raw, Rc::increment_strong_count, Rc::from_raw, drop(Rc).
Rc_into_raw(w, a) == [w EXCEPT !.handles[a] = @ - 1]
Rc_increment_strong_count(w, a) == [w EXCEPT !.strong[a] = @ + 1]
Rc_from_raw(w, a) == [w EXCEPT !.handles[a] = @ + 1]
Rc_drop(w, a) == [w EXCEPT !.handles[a] = @ - 1, !.strong[a] = @ - 1]

\* std::any::type_name::<T>() of the pointee of each allocation and of the
\* T a read asks for: odd allocations hold a Vec<u32>, even ones a Vec<u8>.
type_name(inner) == inner
AllocType(a) == IF a % 2 = 1 THEN "Vec<u32>" ELSE "Vec<u8>"

\* impl PushValue for Rc<T>
Rc_push_to(v, w) ==
    LET idx == Len(w.st)
        st1 == push_object(w.st)
        w1 == Rc_into_raw(w, v.a)
        st2 == put_prop_string(push_pointer(st1, v.a), idx, "__rc")
        st3 == put_prop_string(push_string(st2, type_name(AllocType(v.a))), idx, "__type")
    IN  PushOk(idx, [w1 EXCEPT !.st = st3])

\* Faulty variant: peek_rc without the comparison of the type tag.
peek_rc_unchecked(ty, w, idx, copy) ==
    IF ~get_object_ok(w.st, idx) THEN PeekThrow(w)
    ELSE IF ~get_prop_found(w.st, idx, as_bytes("__type"))
         THEN PeekErr(PeekErrorInternal, [w EXCEPT !.st = get_prop(w.st, idx, "__type")])
    ELSE LET st1 == get_prop(w.st, idx, "__type") IN
         IF ~get_string_ok(st1, -1) THEN PeekThrow([w EXCEPT !.st = st1])
         ELSE IF ~get_prop_found(w.st, idx, as_bytes("__rc"))
              THEN PeekErr(PeekErrorInternal, [w EXCEPT !.st = get_prop(w.st, idx, "__rc")])
         ELSE LET st2 == get_prop(w.st, idx, "__rc") IN
              IF ~get_pointer_ok(st2, -1) THEN PeekThrow([w EXCEPT !.st = st2])
              ELSE LET ptr == get_pointer(st2, -1)
                       w1 == IF copy THEN Rc_increment_strong_count(w, ptr) ELSE w
                   IN  PeekOk([ty |-> ty, a |-> ptr], Rc_from_raw(w1, ptr))

\* peek_rc::<T>(ctx, idx, copy) with T = Inner(ty); None is PeekError::Internal.
peek_rc(ty, w, idx, copy) ==
    IF ~get_object_ok(w.st, idx) THEN PeekThrow(w)
    ELSE IF ~get_prop_found(w.st, idx, as_bytes("__type"))
         THEN PeekErr(PeekErrorInternal, [w EXCEPT !.st = get_prop(w.st, idx, "__type")])
    ELSE LET st1 == get_prop(w.st, idx, "__type") IN
         IF ~get_string_ok(st1, -1) THEN PeekThrow([w EXCEPT !.st = st1])
         ELSE IF get_string(st1, -1) /= type_name(Inner(ty)) THEN PeekErr(PeekErrorInternal, w)
         ELSE IF ~get_prop_found(w.st, idx, as_bytes("__rc"))
              THEN PeekErr(PeekErrorInternal, [w EXCEPT !.st = get_prop(w.st, idx, "__rc")])
         ELSE LET st2 == get_prop(w.st, idx, "__rc") IN
              IF ~get_pointer_ok(st2, -1) THEN PeekThrow([w EXCEPT !.st = st2])
              ELSE LET ptr == get_pointer(st2, -1)
                       w1 == IF copy THEN Rc_increment_strong_count(w, ptr) ELSE w
                   IN  PeekOk([ty |-> ty, a |-> ptr], Rc_from_raw(w1, ptr))

\* Faulty variants: a peek that takes the slot's reference, a pop that adds one.
Rc_peek_at_no_copy(ty, w, idx) == peek_rc(ty, w, idx, FALSE)
Rc_pop_with_copy(ty, w) ==
    The({IF r.res /= "Ok" THEN r
         ELSE PeekOk(r.val, [r.w EXCEPT !.st = pop_it(r.w.st)])
         : r \in {peek_rc(ty, w, -1, TRUE)}})

\* impl PeekValue for Rc<T>
Rc_peek_at(ty, w, idx) == peek_rc(ty, w, idx, TRUE)
Rc_pop(ty, w) ==
    The({IF r.res /= "Ok" THEN r
         ELSE PeekOk(r.val, [r.w EXCEPT !.st = pop_it(r.w.st)])
         : r \in {peek_rc(ty, w, -1, FALSE)}})

\* Faulty variant: the hidden marker is not written.
prop_name_plain(meta) == as_bytes(meta.name)

\* FieldMeta::prop_name: 0xff before the name's bytes for a hidden field.
prop_name(meta) ==
    IF meta.is_hidden THEN <<255>> \o as_bytes(meta.name) ELSE as_bytes(meta.name)

\* The generated register_<method>: push_function of the method's marker
\* type, then put_prop_string(idx, name).
register_method(m, st, idx, name) ==
    put_prop_string(push_value(st, DukFunction(m.name, method_args_count(m))), idx, name)

\* The generated register_methods: for each allow-listed name, in order,
\* Self::register_<snake case of the name>(ctx, idx, name).
RECURSIVE register_methods(_, _, _, _)
register_methods(ty, i, idx, st) ==
    IF i > Len(Methods(ty)) THEN st
    ELSE register_methods(ty, i + 1, idx,
             register_method(MethodOf(to_snake_case(Methods(ty)[i].name)), st, idx,
                             Methods(ty)[i].name))

RECURSIVE push_to(_, _)
RECURSIVE peek_at(_, _, _)
RECURSIVE pop(_, _)
RECURSIVE Derived_push_fields(_, _, _, _)
RECURSIVE Derived_peek_fields(_, _, _, _, _)
RECURSIVE PeekValue_pop(_, _)

\* Faulty variant: a field whose lookup fails is skipped and the read goes on.
Derived_peek_fields_lenient(ty, i, idx, acc, w) ==
    IF i > Len(Fields(ty)) THEN [res |-> "Ok", val |-> [ty |-> ty, f |-> acc], err |-> [e |-> ""], w |-> w]
    ELSE IF get_prop_throws(w.st, idx) THEN [res |-> "Throw", val |-> [ty |-> "!"], err |-> [e |-> ""], w |-> w]
    ELSE IF ~get_prop_found(w.st, idx, prop_name(Fields(ty)[i]))
         THEN Derived_peek_fields(ty, i + 1, idx, Append(acc, [ty |-> "!"]), w)
    ELSE The({IF r.res /= "Ok" THEN r
              ELSE Derived_peek_fields(ty, i + 1, idx, Append(acc, r.val), r.w)
              : r \in {pop(Fields(ty)[i].ty,
                           [w EXCEPT !.st = get_prop_bytes(w.st, idx, prop_name(Fields(ty)[i]))])}})

\* impl PushValue for Option<T>
Option_push_to(v, w) ==
    IF v.some THEN push_to(v.v, w)
    ELSE LET st1 == push_undefined(w.st)
         IN  PushOk(stack_top(st1), [w EXCEPT !.st = st1])

\* impl PeekValue for Option<T>
Option_peek_at(ty, w, idx) ==
    IF is_null_or_undefined(w.st, idx) THEN PeekOk([ty |-> ty, some |-> FALSE, v |-> Nil], w)
    ELSE The({IF r.res /= "Ok" THEN r
              ELSE PeekOk([ty |-> ty, some |-> TRUE, v |-> r.val], r.w)
              : r \in {peek_at(Inner(ty), w, idx)}})

\* The generated push_to of #[derive(Value)]: the PushField of fields i.. on
\* the object at idx.
Derived_push_fields(v, i, idx, w) ==
    IF i > Len(v.f) THEN PushOk(idx, w)
    ELSE The({IF r.res /= "Ok" THEN r
              ELSE Derived_push_fields(v, i + 1, idx,
                       [r.w EXCEPT !.st = put_prop_bytes(r.w.st, idx, prop_name(Fields(v.ty)[i]))])
              : r \in {IF Fields(v.ty)[i].is_data THEN SerdeValue_push_to(v.f[i], w)
                                                  ELSE push_to(v.f[i], w)}})

Derived_push_to(v, w) ==
    LET idx == Len(w.st)
    IN  The({IF r.res /= "Ok" THEN r
             ELSE PushOk(idx, [r.w EXCEPT !.st = register_methods(v.ty, 1, idx, r.w.st)])
             : r \in {Derived_push_fields(v, 1, idx, [w EXCEPT !.st = push_object(w.st)])}})

\* The generated peek_at of #[derive(Value)]: for fields i.. a get_prop_bytes
\* on the object at idx, then the PeekField, ctx.pop_value::<ty>()?.
Derived_peek_fields(ty, i, idx, acc, w) ==
    IF i > Len(Fields(ty)) THEN PeekOk([ty |-> ty, f |-> acc], w)
    ELSE LET meta == Fields(ty)[i] IN
         IF get_prop_throws(w.st, idx) THEN PeekThrow(w)
         ELSE IF ~get_prop_found(w.st, idx, prop_name(meta))
              THEN PeekErr(PeekErrorProp(meta.name),
                           [w EXCEPT !.st = get_prop_bytes(w.st, idx, prop_name(meta))])
         ELSE The({IF r.res /= "Ok" THEN r
                   ELSE Derived_peek_fields(ty, i + 1, idx, Append(acc, r.val), r.w)
                   : r \in {IF meta.is_data
                            THEN PeekValue_pop(meta.ty, [w EXCEPT !.st = get_prop_bytes(w.st, idx, prop_name(meta))])
                            ELSE pop(meta.ty, [w EXCEPT !.st = get_prop_bytes(w.st, idx, prop_name(meta))])}})

Derived_peek_at(ty, w, idx) ==
    IF ~get_object_ok(w.st, idx) THEN PeekThrow(w)
    ELSE Derived_peek_fields(ty, 1, idx, <<>>, w)

\* PushValue::push_to of each native type.
push_to(v, w) ==
    CASE v.ty \in ScalarTypes \cup Int64Types \cup {"()"} \cup SeqTypes \cup SerdeRecordTypes ->
            SerdeValue_push_to(v, w)
      [] v.ty \in OptionTypes \cup OptionRcTypes -> Option_push_to(v, w)
      [] v.ty \in RcTypes -> Rc_push_to(v, w)
      [] v.ty \in DerivedTypes -> Derived_push_to(v, w)

\* PeekValue::peek_at of each native type.
peek_at(ty, w, idx) ==
    CASE ty \in ScalarTypes \cup Int64Types \cup SeqTypes \cup SerdeRecordTypes \cup BytesTypes ->
            SerdeValue_peek_at(ty, w, idx)
      [] ty = "()" -> PeekOk(Unit, w)
      [] ty \in OptionTypes \cup OptionRcTypes -> Option_peek_at(ty, w, idx)
      [] ty \in RcTypes -> Rc_peek_at(ty, w, idx)
      [] ty \in DerivedTypes -> Derived_peek_at(ty, w, idx)

\* PeekValue::pop: the default (peek_at(-1)?, then pop_it) and the overrides
\* of () and Rc<T>.  duk_pop throws on an empty stack.
PeekValue_pop(ty, w) ==
    The({IF r.res /= "Ok" THEN r
         ELSE IF Len(r.w.st) = 0 THEN PeekThrow(r.w)
         ELSE PeekOk(r.val, [r.w EXCEPT !.st = pop_it(r.w.st)])
         : r \in {peek_at(ty, w, -1)}})

Unit_pop(w) ==
    IF Len(w.st) = 0 THEN PeekThrow(w)
    ELSE PeekOk(Unit, [w EXCEPT !.st = pop_it(w.st)])

pop(ty, w) ==
    CASE ty = "()" -> Unit_pop(w)
      [] ty \in RcTypes -> Rc_pop(ty, w)
      [] OTHER -> PeekValue_pop(ty, w)

(***************************************************************************)
(* The native values the host pushes.                                      *)
(***************************************************************************)
ScalarValues ==
    [ty : {"bool"}, b : BOOLEAN]
    \cup [ty : {"u8"}, n : {127, 255}]
    \cup [ty : {"u16"}, n : {255, 65535}]
    \cup [ty : {"u32"}, n : {255, Big}]
    \cup [ty : {"i8"}, n : {-128, 127}]
    \cup [ty : {"i16"}, n : {-32768, 127}]
    \cup [ty : {"i32"}, n : {-Big, 127}]
    \cup [ty : {"f32"}, n : {-128, 65535}]
    \cup [ty : {"f64"}, n : {255, F32Exact + 1}]
    \cup [ty : {"String"}, s : {"", "world"}]

OptionValues ==
    {[ty |-> "Option<u32>", some |-> FALSE, v |-> Nil]}
    \cup {[ty |-> "Option<u32>", some |-> TRUE, v |-> [ty |-> "u32", n |-> n]] : n \in {255}}

SerdeRecordValues ==
    {[ty |-> "T", f |-> <<[ty |-> "String", s |-> s], [ty |-> "u32", n |-> n]>>] :
        s \in {"world"}, n \in {42, 255}}

DerivedValues ==
    {[ty |-> "Test", f |-> <<[ty |-> "u32", n |-> a], [ty |-> "u32", n |-> b]>>] :
        a \in {4}, b \in {2}}

SeqValues ==
    {[ty |-> "Vec<u8>", e |-> e] : e \in {<<[ty |-> "u8", n |-> 0], [ty |-> "u8", n |-> 255]>>}}

PushValues == ScalarValues \cup {Unit} \cup OptionValues \cup SerdeRecordValues
                \cup DerivedValues \cup SeqValues
PeekTypes == ScalarTypes \cup {"()"} \cup OptionTypes \cup {"T"}
                \cup {"Test"} \cup SeqTypes

Allocs == 1 .. MaxAllocs
Indices == (-1) .. (MaxDepth - 1)

W == World(stack, strong, handles, heap)

Op(op, ty, idx, res, val, err) ==
    [op |-> op, ty |-> ty, idx |-> idx, res |-> res, val |-> val, err |-> err,
     d0 |-> Len(stack)]

\* The process is gone after a panic, an engine error outside a protected
\* call, or a crash of the engine on a heap that was destroyed.
Gone(res) == res \in {"Panic", "Throw", "Crash"}

\* The host can use the Context: the process runs and the owner is alive.
Running == ~aborted /\ heap.owner

\* An operation with outcome r whose engine calls ran after d calls of
\* duk_destroy_heap: on a destroyed heap the engine reads freed memory, and
\* the operation either goes on as if the memory were intact or crashes.
UseAfterFree(r, d) == IF d > 0 THEN {r, [r EXCEPT !.res = "Crash"]} ELSE {r}

Init ==
    /\ stack = <<>>
    /\ strong = [a \in Allocs |-> 1]
    /\ handles = [a \in Allocs |-> 1]
    /\ globals = <<>>
    /\ aborted = FALSE
    /\ heap = [destroyed |-> 0, owner |-> TRUE]
    /\ ser = [objects |-> <<>>, seqs |-> <<>>, todo |-> <<>>, active |-> FALSE, d0 |-> 0,
              v |-> Nil]
    /\ last = [op |-> "new", ty |-> "", idx |-> 0, res |-> "Ok", val |-> Nil, err |-> NoErr,
               d0 |-> 0]

\* The effect of an operation with outcome res on the world; a process
\* that is gone has no stack.  Stacks deeper than MaxDepth are not explored
\* (a failed read can leave a looked-up value behind).
Commit(res, w) ==
    /\ Len(w.st) <= MaxDepth
    /\ stack' = IF Gone(res) THEN <<>> ELSE w.st
    /\ strong' = w.strong
    /\ handles' = w.handles
    /\ globals' = globals
    /\ aborted' = Gone(res)
    /\ heap' = w.heap
    /\ ser' = ser

(***************************************************************************)
(* Spec: the host pushes, peeks and pops values of the serde-backed and    *)
(* derived types (Context::push, Context::peek, Context::pop_value).       *)
(***************************************************************************)
\* ctx.push(v)
Push(v) ==
    /\ Running
    /\ Len(stack) < MaxDepth
    /\ \E r0 \in {push_to(v, W)} : \E r \in UseAfterFree(r0, heap.destroyed) :
           /\ Commit(r.res, r.w)
           /\ last' = Op("push_to", v.ty, r.ret, r.res, v, NoErr)

\* ctx.peek::<ty>(idx)
Peek(ty, idx) ==
    /\ Running
    /\ \E r0 \in {peek_at(ty, W, idx)} : \E r \in UseAfterFree(r0, heap.destroyed) :
           /\ Commit(r.res, r.w)
           /\ last' = Op("peek_at", ty, idx, r.res, r.val, r.err)

\* ctx.pop_value::<ty>()
Pop(ty) ==
    /\ Running
    /\ \E r0 \in {pop(ty, W)} : \E r \in UseAfterFree(r0, heap.destroyed) :
           /\ Commit(r.res, r.w)
           /\ last' = Op("pop", ty, -1, r.res, r.val, r.err)

Next ==
    \/ \E v \in PushValues : Push(v)
    \/ \E ty \in PeekTypes, idx \in Indices : Peek(ty, idx)
    \/ \E ty \in PeekTypes : Pop(ty)

Spec == Init /\ [][Next]_vars

(***************************************************************************)
(* Properties of the value protocol, stated for Spec.                      *)
(***************************************************************************)
\* C1: for every scalar type and value v, on a stack with any contents
\* beneath, peek_at at the index push_to(v) returned gives Ok(v).
C1_ScalarRoundTrip ==
    (last.op = "push_to" /\ last.res = "Ok" /\ last.ty \in ScalarTypes) =>
        LET r == peek_at(last.ty, W, last.idx)
        IN  r.res = "Ok" /\ r.val = last.val

\* A scalar was pushed above another slot and read back from its index.
C1_Witness ==
    /\ last.op = "peek_at" /\ last.res = "Ok" /\ last.ty = "i8"
    /\ last.idx = 1 /\ Len(stack) = 2
    /\ last.val = [ty |-> "i8", n |-> -128]
    /\ stack[2] = DukNumber(-128)

\* C2: a serde record pushed on a stack of any depth reads back, at the
\* index the push returned, as a record with equal field values.
C2_RecordRoundTrip ==
    (last.op = "push_to" /\ last.res = "Ok" /\ last.ty \in SerdeRecordTypes) =>
        LET r == peek_at(last.ty, W, last.idx)
        IN  r.res = "Ok" /\ r.val = last.val

\* C3: a successful peek_at leaves the depth and every slot as they were.
C3_PeekNonDestructive ==
    [][(last'.op = "peek_at" /\ last'.res = "Ok") => stack' = stack]_vars

\* C4: a successful pop returns what peek_at(-1) would return and removes
\* exactly the top slot; a failed pop removes nothing.
C4_PopIsPeekThenRemove ==
    [][(last'.op = "pop") =>
          /\ last'.res = "Ok" =>
                /\ stack' = pop_it(stack)
                /\ peek_at(last'.ty, W, -1).res = "Ok"
                /\ last'.val = peek_at(last'.ty, W, -1).val
          /\ last'.res = "Err" =>
                /\ Len(stack') >= Len(stack)
                /\ SubSeq(stack', 1, Len(stack)) = stack]_vars

\* C5: every push_to raises the depth by exactly one and returns the index
\* of the new slot, the depth before the call.
C5_PushReturnsNewSlot ==
    (last.op = "push_to") =>
        /\ last.res = "Ok"
        /\ Len(stack) = last.d0 + 1
        /\ last.idx = last.d0

(***************************************************************************)
(* SpecRc: shared handles.  The host owns handles[a] handles of allocation *)
(* a; it pushes them (Context::push), reads them back (peek, pop_value),   *)
(* clones and drops them.  It also builds objects by hand that are not     *)
(* complete wrappers, and discards top slots that are not wrappers, so a   *)
(* wrapper leaves the stack only through pop.                              *)
(***************************************************************************)
RcHandle(a) == [ty |-> "Rc<" \o AllocType(a) \o ">", a |-> a]

\* A slot is the wrapper of a when Rc::push_to could have built it.
IsWrapperOf(v, a) ==
    /\ v.t = "object"
    /\ as_bytes("__rc") \in DOMAIN v.p
    /\ as_bytes("__type") \in DOMAIN v.p
    /\ v.p[as_bytes("__rc")] = DukPointer(a)
IsWrapper(v) == \E a \in Allocs : IsWrapperOf(v, a)
Wrappers(st, a) == Cardinality({i \in 1 .. Len(st) : IsWrapperOf(st[i], a)})

\* Objects the host assembles with push_object, push_string, push_pointer
\* and put_prop_string: no property, a type tag only, a pointer only.
ForeignKinds == {"plain", "tagged", "pointer"}
push_foreign(st, kind) ==
    LET idx == Len(st)
        st1 == push_object(st)
    IN  CASE kind = "plain" -> st1
          [] kind = "tagged" ->
                put_prop_string(push_string(st1, type_name("Vec<u32>")), idx, "__type")
          [] kind = "pointer" ->
                put_prop_string(push_pointer(st1, 0), idx, "__rc")

\* ctx.push(rc) of a handle the host owns
RcPush(a) ==
    /\ Running
    /\ handles[a] >= 1
    /\ Len(stack) < MaxDepth
    /\ \E r \in {push_to(RcHandle(a), W)} :
           /\ Commit(r.res, r.w)
           /\ last' = Op("push_to", RcHandle(a).ty, r.ret, r.res, RcHandle(a), NoErr)

\* ctx.peek::<Rc<T>>(idx); the host keeps at most MaxHandles handles
RcPeek(ty, idx) ==
    /\ Running
    /\ \E r \in {peek_at(ty, W, idx)} :
           /\ \A a \in Allocs : r.w.handles[a] <= MaxHandles
           /\ Commit(r.res, r.w)
           /\ last' = Op("peek_at", ty, idx, r.res, r.val, r.err)

\* ctx.pop_value::<Rc<T>>()
RcPop(ty) ==
    /\ Running
    /\ \E r \in {pop(ty, W)} :
           /\ \A a \in Allocs : r.w.handles[a] <= MaxHandles
           /\ Commit(r.res, r.w)
           /\ last' = Op("pop", ty, -1, r.res, r.val, r.err)

\* rc.clone()
RcClone(a) ==
    /\ Running
    /\ handles[a] >= 1
    /\ handles[a] < MaxHandles
    /\ Commit("Ok", Rc_from_raw(Rc_increment_strong_count(W, a), a))
    /\ last' = Op("clone", RcHandle(a).ty, 0, "Ok", RcHandle(a), NoErr)

\* drop(rc)
RcDrop(a) ==
    /\ Running
    /\ handles[a] >= 1
    /\ Commit("Ok", Rc_drop(W, a))
    /\ last' = Op("drop", RcHandle(a).ty, 0, "Ok", RcHandle(a), NoErr)

\* the host assembles an object that is no complete wrapper
PushForeign(kind) ==
    /\ Running
    /\ Len(stack) < MaxDepth
    /\ Commit("Ok", [W EXCEPT !.st = push_foreign(stack, kind)])
    /\ last' = Op("push_foreign", kind, Len(stack), "Ok", Nil, NoErr)

\* ctx.pop() of a top slot that is not a wrapper
Discard ==
    /\ Running
    /\ Len(stack) >= 1
    /\ ~IsWrapper(stack[Len(stack)])
    /\ \E r \in {pop("()", W)} :
           /\ Commit(r.res, r.w)
           /\ last' = Op("pop", "()", -1, r.res, r.val, r.err)

NextRc ==
    \/ \E a \in Allocs : RcPush(a)
    \/ \E ty \in RcTypes, idx \in Indices : RcPeek(ty, idx)
    \/ \E ty \in RcTypes : RcPop(ty)
    \/ \E a \in Allocs : RcClone(a)
    \/ \E a \in Allocs : RcDrop(a)
    \/ \E kind \in ForeignKinds : PushForeign(kind)
    \/ Discard

SpecRc == Init /\ [][NextRc]_vars

(***************************************************************************)
(* Properties of shared handles, stated for SpecRc.                        *)
(***************************************************************************)
\* The allocation a wrapper slot points at.
PointerOf(v) == v.p[as_bytes("__rc")].a

\* C6: with strong count c, push_to leaves the count at c; a successful
\* peek_at raises it by exactly one, returns a handle to the same allocation
\* and leaves the slot; a successful pop transfers the slot's reference
\* (count unchanged, slot removed); dropping a handle lowers it by one.
C6_RcCounts ==
    [][/\ (last'.op = "push_to" /\ last'.res = "Ok") =>
              /\ strong' = strong
              /\ IsWrapperOf(stack'[last'.idx + 1], last'.val.a)
       /\ (last'.op = "peek_at" /\ last'.res = "Ok") =>
              /\ last'.val.a = PointerOf(slot(stack, last'.idx))
              /\ strong' = [strong EXCEPT ![last'.val.a] = @ + 1]
              /\ handles' = [handles EXCEPT ![last'.val.a] = @ + 1]
              /\ stack' = stack
       /\ (last'.op = "pop" /\ last'.ty \in RcTypes /\ last'.res = "Ok") =>
              /\ last'.val.a = PointerOf(slot(stack, -1))
              /\ strong' = strong
              /\ handles' = [handles EXCEPT ![last'.val.a] = @ + 1]
              /\ stack' = pop_it(stack)
       /\ (last'.op = "drop") =>
              /\ strong' = [strong EXCEPT ![last'.val.a] = @ - 1]]_vars

\* The only wrapper of allocation 1 was popped while the host held another
\* handle of it: the count stayed at 2, both references are host handles.
C6_Witness ==
    /\ last.op = "pop" /\ last.res = "Ok" /\ last.val = RcHandle(1)
    /\ strong[1] = 2 /\ handles[1] = 2
    /\ stack = <<>> /\ ~aborted

\* C7: while the process runs and wrappers leave the stack only through
\* pop, the strong count of every allocation equals the number of live
\* host handles plus the number of wrapper slots holding its pointer.
C7_StrongCountExact ==
    ~aborted => \A a \in Allocs : strong[a] = handles[a] + Wrappers(stack, a)

\* Two wrappers of one allocation are on the stack and the host has no
\* handle left, after a peek and a pop took place (count 2 = 0 + 2).
C7_Witness ==
    /\ ~aborted
    /\ Wrappers(stack, 1) = 2 /\ handles[1] = 0 /\ strong[1] = 2
    /\ last.op = "push_to" /\ last.val.a = 1

\* The slot is an object that is no wrapper of a ty: its type tag is
\* missing or names another type, or its pointer is missing.
NotWrapperOfType(v, ty) ==
    /\ v.t = "object"
    /\ \/ as_bytes("__type") \notin DOMAIN v.p
       \/ /\ v.p[as_bytes("__type")].t = "string"
          /\ \/ v.p[as_bytes("__type")].s /= type_name(Inner(ty))
             \/ as_bytes("__rc") \notin DOMAIN v.p

\* C8: reading such a slot as Rc<T> returns Err(Internal); no handle is
\* reconstructed, the strong counts are untouched, and pop does not remove
\* the slot.
C8_TypeTagGuard ==
    [][(/\ last'.op \in {"peek_at", "pop"}
        /\ last'.ty \in RcTypes
        /\ is_valid_index(stack, last'.idx)
        /\ NotWrapperOfType(slot(stack, last'.idx), last'.ty)) =>
            /\ last'.res = "Err"
            /\ last'.err = PeekErrorInternal
            /\ last'.val = Nil
            /\ strong' = strong
            /\ handles' = handles
            /\ Len(stack') >= Len(stack)
            /\ SubSeq(stack', 1, Len(stack)) = stack]_vars

\* A wrapper of a Vec<u32> allocation was popped as Rc<Vec<u8>>: the pop
\* failed and the wrapper is still the top slot.
C8_Witness ==
    /\ last.op = "pop" /\ last.ty = "Rc<Vec<u8>>"
    /\ last.res = "Err" /\ last.err = PeekErrorInternal
    /\ Len(stack) = 2 /\ IsWrapperOf(stack[2], 1)
    /\ strong[1] = 2 /\ handles[1] = 1

(***************************************************************************)
(* Functions wrapped by #[duktape] (duktape-macros).  A declaration lists  *)
(* the argument types after the leading ctx: &mut Context, which the macro *)
(* skips when it collects `args`.                                          *)
(***************************************************************************)
NativeAdder ==
    [struct |-> "NativeAdder", name |-> "adder", args |-> <<>>, ret |-> "u32", vararg |-> FALSE]
Bla ==
    [struct |-> "Bla", name |-> "bla", args |-> <<"u32", "u32">>, ret |-> "u32", vararg |-> FALSE]
BlaVararg ==
    [struct |-> "BlaVararg", name |-> "bla", args |-> <<"u32", "u32">>, ret |-> "u32", vararg |-> TRUE]
DoIt ==
    [struct |-> "DoIt", name |-> "do_it", args |-> <<"Pdo">>, ret |-> "u32", vararg |-> FALSE]
FnDecls == {NativeAdder, Bla, BlaVararg, DoIt}
FnOf(struct) == CHOOSE f \in FnDecls : f.struct = struct

args_count(f) == Len(f.args)
raw_args_count(f) == args_count(f) - 1
func_args_count(f) == IF f.vararg THEN -1 ELSE raw_args_count(f)
return_count(f) == IF f.ret = "none" THEN 0 ELSE 1

\* Function::ARGS and push_function: duk_push_c_function(ptr, F::ARGS)
push_function(st, f) == push_value(st, DukFunction(f.struct, func_args_count(f)))

\* The sum native_adder computes: get_uint(i) for i in 0 .. n-1.
RECURSIVE native_adder_sum(_, _)
native_adder_sum(st, i) ==
    IF i >= Len(st) THEN 0 ELSE get_uint(st, i) + native_adder_sum(st, i + 1)

\* The wrapped function itself: [res, val].
body(f, recv, w) ==
    CASE f.struct = "NativeAdder" ->
            IF \E i \in 0 .. (Len(w.st) - 1) : ~get_number_ok(w.st, i)
            THEN [res |-> "Throw", val |-> Nil]
            ELSE [res |-> "Ok", val |-> [ty |-> "u32", n |-> native_adder_sum(w.st, 0)]]
      [] f.struct \in {"Bla", "BlaVararg"} ->
            [res |-> "Ok", val |-> [ty |-> "u32", n |-> recv[1].n + recv[2].n]]
      [] f.struct = "DoIt" ->
            [res |-> "Ok", val |-> recv[1].f[2]]

CallDone(res, rv, called, recv, w) ==
    [res |-> res, rv |-> rv, called |-> called, recv |-> recv, w |-> w]

\* Faulty variant: the offsets count down from the top in declaration order.
arg_idx_from_top(f, i) == -(i + 1)

\* let arg_idx = -(args_count as i32) + i as i32
arg_idx(f, i) == -args_count(f) + i

\* args_getters: arg_i = ctx.peek::<typ>(arg_idx).expect(..), in order.
RECURSIVE args_getters(_, _, _, _)
args_getters(f, i, recv, w) ==
    IF i >= args_count(f) THEN CallDone("Ok", 0, FALSE, recv, w)
    ELSE The({CASE r.res = "Ok" -> args_getters(f, i + 1, Append(recv, r.val), r.w)
                [] r.res = "Err" -> CallDone("Panic", 0, FALSE, recv, r.w)
                [] OTHER -> CallDone(r.res, 0, FALSE, recv, r.w)
              : r \in {peek_at(f.args[i + 1], w, arg_idx(f, i))}})

\* let result = fn_name(ctx, args); push_result; return_count
call_body(f, recv, w) ==
    The({IF b.res /= "Ok" THEN CallDone(b.res, 0, TRUE, recv, w)
         ELSE IF f.ret = "none" THEN CallDone("Ok", return_count(f), TRUE, recv, w)
         ELSE The({CallDone(p.res, return_count(f), TRUE, recv, p.w) : p \in {push_to(b.val, w)}})
         : b \in {body(f, recv, w)}})

\* impl Drop for Context: duk_destroy_heap(self.inner).
Context_drop(w) == [w EXCEPT !.heap.destroyed = @ + 1]

\* The statements of the generated extern "C" trampoline of a free function,
\* from `let n = ctx.stack_len()` to the returned count.
bare_func_run(f, w) ==
    LET n == stack_len(w.st) IN
    IF n < raw_args_count(f) THEN CallDone("Ok", -1, FALSE, <<>>, w)
    ELSE The({IF g.res /= "Ok" THEN g
              ELSE IF raw_args_count(f) > 0 /\ Len(g.w.st) < raw_args_count(f)
                   THEN CallDone("Throw", 0, FALSE, g.recv, g.w)
              ELSE IF raw_args_count(f) > 0
                   THEN call_body(f, g.recv, [g.w EXCEPT !.st = pop_n(g.w.st, raw_args_count(f))])
              ELSE call_body(f, g.recv, g.w)
              : g \in {args_getters(f, 0, <<>>, w)}})

\* The trampoline: `let ctx = &mut Context::from_raw(raw)` makes a Context
\* that lives to the end of the function body and is dropped there, on a
\* return and on a panic that unwinds; an engine error leaves the function
\* by longjmp and drops nothing.
bare_func(f, w) ==
    The({IF g.res = "Throw" THEN g ELSE [g EXCEPT !.w = Context_drop(g.w)]
         : g \in {bare_func_run(f, w)}})

\* Context::call_function: run the trampoline on the host's own stack.
call_function(f, w) ==
    The({IF r.res = "Ok" /\ r.rv < 0 THEN [r EXCEPT !.res = "Err"] ELSE r
         : r \in {bare_func(f, w)}})

\* Context::register_function: push_function, then duk_put_global_lstring.
register_function(g, st, name, f) ==
    LET st1 == push_function(st, f)
        fn == slot(st1, -1)
    IN  [globals |-> [k \in (DOMAIN g) \cup {name} |-> IF k = name THEN fn ELSE g[k]],
         st |-> pop_it(st1)]

\* A script is a call expression callee(args) with number literals, or
\* the sum of number literals (callee "+"), which the engine computes
\* itself; eval::<as> decodes its completion value.  duk_eval_raw in safe mode:
\* an unbound callee is a ReferenceError; a bound one runs on a fresh frame
\* holding the arguments, cut or padded with undefined to the function's
\* nargs unless nargs is negative (variable arguments).  A negative return
\* or an engine error inside the call is caught: the caller's stack gets
\* the error and the status is nonzero.  Otherwise the stack gets the
\* call's result, the frame's top slot when the function returned 1.
ErrorMessage == [e |-> "Message"]
ErrorPeek(err) == [e |-> "Peek", source |-> err]

\* The sum of the number literals of a script's argument list.
RECURSIVE SumOf(_)
SumOf(args) == IF args = <<>> THEN 0 ELSE args[1] + SumOf(Tail(args))

call_frame(fn, args) ==
    LET argv == [i \in 1 .. Len(args) |-> DukNumber(args[i])]
    IN  IF fn.nargs < 0 THEN argv
        ELSE [i \in 1 .. fn.nargs |-> IF i <= Len(argv) THEN argv[i] ELSE DukUndefined]

EvalDone(rv, res, v, r, fn, w) ==
    [rv |-> rv, res |-> res, called |-> r.called, recv |-> r.recv, fn |-> fn,
     w |-> [r.w EXCEPT !.st = push_value(w.st, v)]]

duk_eval_raw(script, w, g) ==
    IF script.callee = "+"
    THEN EvalDone(0, "Ok", DukNumber(SumOf(script.args)), CallDone("Ok", 0, FALSE, <<>>, w), "", w)
    ELSE IF script.callee \notin DOMAIN g
    THEN EvalDone(1, "Ok", DukError, CallDone("Ok", 0, FALSE, <<>>, w), "", w)
    ELSE LET fn == g[script.callee]
         IN  The({CASE r.res = "Panic" -> EvalDone(1, "Panic", DukError, r, fn.f, w)
                    [] r.res = "Throw" \/ r.rv < 0 -> EvalDone(1, "Ok", DukError, r, fn.f, w)
                    [] r.rv = 0 -> EvalDone(0, "Ok", DukUndefined, r, fn.f, w)
                    [] OTHER -> EvalDone(0, "Ok", slot(r.w.st, -1), r, fn.f, w)
                  : r \in {bare_func(FnOf(fn.f), [w EXCEPT !.st = call_frame(fn, script.args)])}})

\* Context::eval::<T>
EvalResult(res, val, err, w, d) ==
    [res |-> res, val |-> val, err |-> err, w |-> w,
     called |-> d.called, recv |-> d.recv, fn |-> d.fn]

\* Faulty variant: the status of duk_eval_raw is not looked at.
eval_unchecked(script, w, g) ==
    The({IF d.res = "Panic" THEN EvalResult("Panic", Nil, NoErr, d.w, d)
         ELSE The({IF r.res = "Err" THEN EvalResult("Err", Nil, ErrorPeek(r.err), r.w, d)
                   ELSE EvalResult(r.res, r.val, NoErr, r.w, d)
                   : r \in {peek_at(script.as, d.w, -1)}})
         : d \in {duk_eval_raw(script, w, g)}})

eval(script, w, g) ==
    The({IF d.res = "Panic" THEN EvalResult("Panic", Nil, NoErr, d.w, d)
         ELSE IF d.rv /= 0 THEN EvalResult("Err", Nil, ErrorMessage, d.w, d)
         ELSE The({IF r.res = "Err" THEN EvalResult("Err", Nil, ErrorPeek(r.err), r.w, d)
                   ELSE EvalResult(r.res, r.val, NoErr, r.w, d)
                   : r \in {peek_at(script.as, d.w, -1)}})
         : d \in {duk_eval_raw(script, w, g)}})

(***************************************************************************)
(* SpecCall: the host pushes arguments, calls wrapped functions directly   *)
(* (Context::call_function), registers them as globals and calls them      *)
(* from scripts (Context::register_function, Context::eval).               *)
(***************************************************************************)
CallValues ==
    [ty : {"u32"}, n : {1, 2}]
    \cup {[ty |-> "Pdo", f |-> <<[ty |-> "String", s |-> "hello"], [ty |-> "u32", n |-> 3]>>]}
    \cup {[ty |-> "Test", f |-> <<[ty |-> "u32", n |-> 4], [ty |-> "u32", n |-> 2]>>]}

Scripts ==
    [callee : {"adder", "bla", "do_it"}, args : {<<>>, <<1>>, <<1, 2>>, <<2, 3>>}, as : {"u32"}]
    \cup [callee : {"+"}, args : {<<1, 2>>}, as : {"u32", "Vec<u8>"}]
    \cup [callee : {"bla"}, args : {<<1, 2>>}, as : {"Vec<u8>"}]

\* Sums that wrapped functions leave on the stack are followed up to MaxSum.
SumsBounded(st) == \A i \in 1 .. Len(st) : st[i].t = "number" => st[i].n <= MaxSum

CallOp(op, f, res, val, err, rv, called, recv, script) ==
    [op |-> op, ty |-> f, idx |-> 0, res |-> res, val |-> val, err |-> err,
     d0 |-> Len(stack), rv |-> rv, called |-> called, recv |-> recv, script |-> script]

\* ctx.call_function(F)
CallFunction(f) ==
    /\ Running
    /\ \E r0 \in {call_function(f, W)} : \E r \in UseAfterFree(r0, heap.destroyed) :
           /\ SumsBounded(r.w.st)
           /\ r.w.heap.destroyed <= MaxDestroys
           /\ Commit(r.res, r.w)
           /\ last' = CallOp("call_function", f.struct, r.res, Nil,
                             IF r.res = "Err" THEN ErrorMessage ELSE NoErr,
                             r.rv, r.called, r.recv, Nil)

\* ctx.register_function(name, F)
Register(f) ==
    /\ Running
    /\ \E r0 \in {register_function(globals, stack, f.name, f)} :
       \E r \in UseAfterFree([res |-> "Ok", globals |-> r0.globals, st |-> r0.st], heap.destroyed) :
           /\ globals' = r.globals
           /\ stack' = IF Gone(r.res) THEN <<>> ELSE r.st
           /\ aborted' = Gone(r.res)
           /\ last' = CallOp("register_function", f.struct, r.res, Nil, NoErr, 0, FALSE, <<>>, Nil)
    /\ UNCHANGED <<strong, handles, heap, ser>>

\* ctx.eval::<T>(script)
Eval(script) ==
    /\ Running
    /\ \E r0 \in {eval(script, W, globals)} : \E r \in UseAfterFree(r0, r0.w.heap.destroyed) :
           /\ SumsBounded(r.w.st)
           /\ r.w.heap.destroyed <= MaxDestroys
           /\ Commit(r.res, r.w)
           /\ last' = CallOp("eval", r.fn, r.res, r.val, r.err, 0, r.called, r.recv, script)

\* drop(ctx) of the Context the host owns: Drop for Context destroys the
\* heap, and with it the stack; a heap that a trampoline destroyed before
\* is freed a second time.
DropContext ==
    /\ Running
    /\ heap.destroyed < MaxDestroys
    /\ \E r \in UseAfterFree([res |-> "Ok", w |-> Context_drop(W)], heap.destroyed) :
           /\ heap' = [r.w.heap EXCEPT !.owner = FALSE]
           /\ aborted' = Gone(r.res)
           /\ last' = CallOp("drop_context", "Context", r.res, Nil, NoErr, 0, FALSE, <<>>, Nil)
    /\ stack' = <<>>
    /\ UNCHANGED <<strong, handles, globals, ser>>

NextCall ==
    \/ \E v \in CallValues : Push(v)
    \/ Pop("()")
    \/ \E f \in FnDecls : CallFunction(f)
    \/ \E f \in FnDecls : Register(f)
    \/ \E script \in Scripts : Eval(script)
    \/ DropContext

SpecCall == Init /\ [][NextCall]_vars

(***************************************************************************)
(* Properties of wrapped functions, stated for SpecCall.                   *)
(***************************************************************************)
\* C9: a trampoline of a function declaring k >= 1 arguments, invoked with
\* fewer than k values on the stack, returns the negative status before
\* decoding any argument; the function is not invoked, the stack is
\* unchanged, and call_function returns Err.
C9_ArityGuard ==
    [][(/\ last'.op = "call_function"
        /\ args_count(FnOf(last'.ty)) >= 1
        /\ Len(stack) < args_count(FnOf(last'.ty))) =>
            /\ last'.res = "Err"
            /\ last'.rv < 0
            /\ ~last'.called
            /\ last'.recv = <<>>
            /\ stack' = stack]_vars

\* C10: a function declared with two numeric arguments that returns their
\* sum, registered and called from a script with the arguments 1 and 2,
\* makes the function receive a = 1 and b = 2 and eval return Ok(3).
C10_AdderFromScript ==
    (/\ last.op = "eval"
     /\ last.ty \in {"Bla", "BlaVararg"}
     /\ last.script.args = <<1, 2>>) =>
        /\ last.called
        /\ last.recv = <<[ty |-> "u32", n |-> 1], [ty |-> "u32", n |-> 2]>>
        /\ last.res = "Ok"
        /\ last.val = [ty |-> "u32", n |-> 3]

\* C11: the engine heap is destroyed at most once, and only by the drop of
\* the Context that owns it; a trampoline's return never destroys it.
C11_HeapDestroyedOnce ==
    [][heap'.destroyed /= heap.destroyed =>
          /\ last'.op = "drop_context"
          /\ heap.destroyed = 0
          /\ heap'.destroyed = 1]_vars

\* C12: when a trampoline is entered with at least as many values as it
\* declares arguments and an argument does not decode as its type, the
\* failure is a negative return code or an engine error; the trampoline
\* does not panic and the native function is not invoked.
C12_DecodeFailureNoPanic ==
    [][(/\ last'.op = "call_function"
        /\ heap.destroyed = 0
        /\ args_count(FnOf(last'.ty)) >= 1
        /\ Len(stack) >= args_count(FnOf(last'.ty))
        /\ peek_at(FnOf(last'.ty).args[1], W, -args_count(FnOf(last'.ty))).res /= "Ok") =>
            /\ last'.res \in {"Err", "Throw"}
            /\ ~last'.called]_vars

(***************************************************************************)
(* SpecBridge: the host pushes and reads values whose encoding the bridge  *)
(* does not support or treats specially: 64-bit integers, Optionals, byte  *)
(* sequences, raw byte buffers and hidden fields.                          *)
(***************************************************************************)
None == [ty |-> "Option<u32>", some |-> FALSE, v |-> Nil]
Some(v) == [ty |-> "Option<u32>", some |-> TRUE, v |-> v]

BridgeValues ==
    [ty : Int64Types, n : {1}]
    \cup {[ty |-> "Wide", f |-> <<[ty |-> "u64", n |-> 1]>>]}
    \cup OptionValues
    \cup {[ty |-> "TOpt", f |-> <<o>>] : o \in OptionValues}
    \cup {[ty |-> "Vec<u8>", e |-> e] : e \in {<<>>, <<[ty |-> "u8", n |-> 0], [ty |-> "u8", n |-> 255]>>}}
    \cup {[ty |-> "ObjBuf", f |-> <<[ty |-> "serde_bytes", e |-> <<0, 1, 2, 3>>]>>]}
    \cup {[ty |-> "HiddenObj", f |-> <<[ty |-> "u32", n |-> 7], [ty |-> "u32", n |-> 9]>>]}
    \cup {[ty |-> "Pdo", f |-> <<[ty |-> "String", s |-> "hello"], [ty |-> "u32", n |-> 3]>>]}

BridgeTypes == Int64Types \cup {"Wide", "TOpt", "u32", "HiddenObj"} \cup OptionTypes \cup SeqTypes

\* ctx.push_null()
PushNull ==
    /\ Running
    /\ Len(stack) < MaxDepth
    /\ Commit("Ok", [W EXCEPT !.st = push_null(stack)])
    /\ last' = Op("push_null", "", Len(stack), "Ok", Nil, NoErr)

NextBridge ==
    \/ \E v \in BridgeValues : Push(v)
    \/ PushNull
    \/ \E ty \in BridgeTypes, idx \in Indices : Peek(ty, idx)
    \/ \E ty \in BridgeTypes : Pop(ty)

SpecBridge == Init /\ [][NextBridge]_vars

\* C13: every attempt to encode or decode an i64 or u64, directly or as a
\* record field, yields the "unsupported" error value and does not panic.
C13_Unsupported64 ==
    /\ (last.op = "push_to" /\ last.ty \in Int64Types \cup {"Wide"}) =>
            last.res = "Err"
    /\ (last.op \in {"peek_at", "pop"} /\ last.ty \in Int64Types) =>
            /\ last.res = "Err"
            /\ last.err = PeekErrorDeserialize("not implemented")

\* C14: reading a slot as Option<u32> gives Ok(None) when it holds null or
\* undefined and otherwise Ok(Some(v)) with v the u32 read from it; a record
\* read through the bridge gives the same for its Optional field.
C14_OptionalDecode ==
    [][(last'.op = "peek_at" /\ is_valid_index(stack, last'.idx)) =>
          /\ (last'.ty = "Option<u32>" /\ slot(stack, last'.idx).t \in {"null", "undefined"}) =>
                (last'.res = "Ok" /\ last'.val = None)
          /\ (last'.ty = "Option<u32>" /\ peek_at("u32", W, last'.idx).res = "Ok") =>
                (last'.res = "Ok" /\ last'.val = Some(peek_at("u32", W, last'.idx).val))
          /\ (/\ last'.ty = "TOpt"
              /\ slot(stack, last'.idx).t = "object"
              /\ as_bytes("num") \in DOMAIN slot(stack, last'.idx).p
              /\ slot(stack, last'.idx).p[as_bytes("num")].t \in {"null", "undefined"}) =>
                (last'.res = "Ok" /\ last'.val = [ty |-> "TOpt", f |-> <<None>>])]_vars

\* C15: an absent Optional is encoded as exactly one undefined slot, pushed
\* directly or bound as the field of a record encoded through the bridge;
\* Some(v) is encoded as v.
C15_OptionalEncode ==
    (last.op = "push_to" /\ last.res = "Ok" /\ last.ty \in {"Option<u32>", "TOpt"}) =>
        /\ Len(stack) = last.d0 + 1
        /\ last.idx = last.d0
        /\ (last.ty = "Option<u32>" /\ ~last.val.some) => stack[Len(stack)] = DukUndefined
        /\ (last.ty = "Option<u32>" /\ last.val.some) =>
                stack[Len(stack)] = DukNumber(last.val.v.n)
        /\ (last.ty = "TOpt") =>
                /\ stack[Len(stack)].t = "object"
                /\ DOMAIN stack[Len(stack)].p = {as_bytes("num")}
                /\ stack[Len(stack)].p[as_bytes("num")] =
                        IF last.val.f[1].some THEN DukNumber(last.val.f[1].v.n) ELSE DukUndefined

\* C16: a byte sequence, the empty one included, pushed through the bridge
\* and read with peek_at as Vec<u8> at the index the push returned gives
\* Ok of the same sequence.
C16_ByteSeqRoundTrip ==
    (last.op = "push_to" /\ last.res = "Ok" /\ last.ty \in SeqTypes) =>
        LET r == peek_at(last.ty, W, last.idx)
        IN  r.res = "Ok" /\ r.val = last.val

\* C17: pushing a record whose byte field is on the raw-buffer path
\* succeeds and binds the bytes as one engine buffer.
C17_RawBufferPush ==
    (last.op = "push_to" /\ last.ty = "ObjBuf") =>
        /\ last.res = "Ok"
        /\ Len(stack) = last.d0 + 1
        /\ stack[Len(stack)].t = "object"
        /\ stack[Len(stack)].p[as_bytes("data")] = [t |-> "buffer", b |-> last.val.f[1].e]

\* C18: push_to of a derived record binds a hidden field under 0xFF
\* followed by its name and every other field under its plain name, so no
\* hidden key is a plain name; peek_at looks the fields up under the same
\* keys: the record reads back equal, and an object that has the plain key
\* of a hidden field only is refused with Prop(that field).
C18_HiddenKeys ==
    /\ (last.op = "push_to" /\ last.res = "Ok" /\ last.ty = "HiddenObj") =>
            LET o == slot(stack, last.idx)
                f == Fields("HiddenObj")
                key(i) == IF f[i].is_hidden THEN <<255>> \o as_bytes(f[i].name)
                                            ELSE as_bytes(f[i].name)
            IN  /\ o.t = "object"
                /\ DOMAIN o.p = {key(i) : i \in 1 .. Len(f)}
                /\ \A i \in 1 .. Len(f) : o.p[key(i)] = DukNumber(last.val.f[i].n)
                /\ \A i, j \in 1 .. Len(f) : f[i].is_hidden => key(i) /= as_bytes(f[j].name)
                /\ peek_at("HiddenObj", W, last.idx).res = "Ok"
                /\ peek_at("HiddenObj", W, last.idx).val = last.val
    /\ (last.op = "push_to" /\ last.res = "Ok" /\ last.ty = "Pdo") =>
            /\ peek_at("HiddenObj", W, last.idx).res = "Err"
            /\ peek_at("HiddenObj", W, last.idx).err = PeekErrorProp("data")

\* A record with a hidden field was pushed above another slot and read
\* back from its index.
C18_Witness ==
    /\ last.op = "peek_at" /\ last.ty = "HiddenObj" /\ last.res = "Ok"
    /\ last.idx = 1 /\ Len(stack) = 2
    /\ last.val = [ty |-> "HiddenObj", f |-> <<[ty |-> "u32", n |-> 7], [ty |-> "u32", n |-> 9]>>]
    /\ (<<255>> \o as_bytes("data")) \in DOMAIN stack[2].p

\* C19: native_adder, declared with the context parameter only and
\* registered without vararg, is entered with every argument the script
\* supplied: evaluating adder(args) returns Ok of the sum of args, Ok(5)
\* for adder(2,3).
C19_NoArgFunctionKeepsArgs ==
    (last.op = "eval" /\ last.ty = "NativeAdder" /\ last.script.args /= <<>>) =>
        /\ last.called
        /\ last.res = "Ok"
        /\ last.val = [ty |-> "u32", n |-> SumOf(last.script.args)]

(***************************************************************************)
(* SpecMethod: the host pushes derived records that carry methods, pushes  *)
(* property names and calls the methods through Context::call_prop.        *)
(***************************************************************************)
\* The wrapped method itself, on the decoded receiver: [res, val].
method_body(m, this, recv) ==
    CASE m.name = "sum_fields" ->
            [res |-> "Ok", val |-> [ty |-> "u32", n |-> this.f[1].n + this.f[2].n]]
      [] m.name = "to_int" -> [res |-> "Ok", val |-> [ty |-> "u32", n |-> 0]]
      [] m.name = "to_string" -> [res |-> "Ok", val |-> [ty |-> "String", s |-> ""]]

\* let result = this.fn_name(args); push_result; return_count
method_call_body(m, this, recv, w) ==
    The({IF b.res /= "Ok" THEN CallDone(b.res, 0, TRUE, recv, w)
         ELSE IF m.ret = "none" THEN CallDone("Ok", return_count(m), TRUE, recv, w)
         ELSE The({CallDone(p.res, return_count(m), TRUE, recv, p.w) : p \in {push_to(b.val, w)}})
         : b \in {method_body(m, this, recv)}})

\* ctx.push_this(); let this = ctx.peek(-1).expect("failed to peek this");
\* if method_args_count > 0 { ctx.pop_n(method_args_count) }; the call.
method_this(m, this, recv, w) ==
    The({CASE r.res = "Err" -> CallDone("Panic", 0, FALSE, recv, r.w)
           [] r.res /= "Ok" -> CallDone(r.res, 0, FALSE, recv, r.w)
           [] method_args_count(m) > 0 /\ Len(r.w.st) < method_args_count(m) ->
                CallDone("Throw", 0, FALSE, recv, r.w)
           [] method_args_count(m) > 0 ->
                method_call_body(m, r.val, recv,
                                 [r.w EXCEPT !.st = pop_n(r.w.st, method_args_count(m))])
           [] OTHER -> method_call_body(m, r.val, recv, r.w)
         : r \in {peek_at(m.this, [w EXCEPT !.st = push_value(w.st, this)], -1)}})

\* The statements of the generated extern "C" trampoline of a method, from
\* `let n = ctx.stack_len()` to the returned count; `this` is the call's
\* receiver binding.
method_func_run(m, this, w) ==
    LET n == stack_len(w.st) IN
    IF n < method_args_count(m) THEN CallDone("Ok", -1, FALSE, <<>>, w)
    ELSE The({IF g.res /= "Ok" THEN g ELSE method_this(m, this, g.recv, g.w)
              : g \in {args_getters(m, 0, <<>>, w)}})

\* The method trampoline with the Context it makes from the raw pointer,
\* dropped at the end of the body as in bare_func.
method_func(m, this, w) ==
    The({IF g.res = "Throw" THEN g ELSE [g EXCEPT !.w = Context_drop(g.w)]
         : g \in {method_func_run(m, this, w)}})

\* duk_pcall_prop(obj_id, n_args) on [.. key arg_1 .. arg_n]: the value of
\* property key of the object at obj_id is called with the object as
\* `this` on a fresh frame holding the arguments, cut or padded to the
\* function's nargs unless that is negative.  The key and the arguments
\* are replaced by the result, or by the error when the lookup, the
\* callee or the call failed.  A key that is not a string names no
\* property of the values the model has.
prop_frame(fn, argv) ==
    IF fn.nargs < 0 THEN argv
    ELSE [i \in 1 .. fn.nargs |-> IF i <= Len(argv) THEN argv[i] ELSE DukUndefined]

PropDone(rc, res, v, r, w, n_args) ==
    [rc |-> rc, res |-> res, called |-> r.called, recv |-> r.recv, fn |-> "",
     rv |-> r.rv, frame |-> IF r.called THEN r.w.st ELSE <<>>,
     w |-> [r.w EXCEPT !.st = push_value(pop_n(w.st, n_args + 1), v)]]

duk_pcall_prop(obj_id, n_args, w) ==
    LET key == slot(w.st, -(n_args + 1))
        argv == SubSeq(w.st, Len(w.st) - n_args + 1, Len(w.st))
        none == CallDone("Ok", 0, FALSE, <<>>, w)
    IN  IF \/ get_prop_throws(w.st, obj_id)
           \/ key.t /= "string"
           \/ ~get_prop_found(w.st, obj_id, as_bytes(key.s))
        THEN PropDone(1, "Ok", DukError, none, w, n_args)
        ELSE LET fn == slot(w.st, obj_id).p[as_bytes(key.s)]
                 this == slot(w.st, obj_id)
             IN  IF fn.t /= "function" THEN PropDone(1, "Ok", DukError, none, w, n_args)
                 ELSE The({[(CASE r.res = "Panic" -> PropDone(1, "Panic", DukError, r, w, n_args)
                               [] r.res = "Throw" \/ r.rv < 0 -> PropDone(1, "Ok", DukError, r, w, n_args)
                               [] r.rv = 0 -> PropDone(0, "Ok", DukUndefined, r, w, n_args)
                               [] OTHER -> PropDone(0, "Ok", slot(r.w.st, -1), r, w, n_args))
                             EXCEPT !.fn = fn.f]
                           : r \in {method_func(MethodOf(fn.f), this,
                                                [w EXCEPT !.st = prop_frame(fn, argv)])}})

\* Context::call_prop: Ok(()) when duk_pcall_prop returned 0, else
\* Err(Error::Message(..)) of the error left on the stack.
call_prop(obj_id, n_args, w) ==
    The({[res |-> IF d.res = "Panic" THEN "Panic" ELSE IF d.rc /= 0 THEN "Err" ELSE "Ok",
          called |-> d.called, recv |-> d.recv, fn |-> d.fn, rv |-> d.rv, frame |-> d.frame,
          w |-> d.w]
         : d \in {duk_pcall_prop(obj_id, n_args, w)}})

MethodValues ==
    {[ty |-> "Test", f |-> <<[ty |-> "u32", n |-> 4], [ty |-> "u32", n |-> 2]>>],
     [ty |-> "Test", f |-> <<[ty |-> "u32", n |-> 1], [ty |-> "u32", n |-> 2]>>]}
PropNames == {"sumFields", "a"}
ArgCounts == {0, 1}

\* ctx.push_string(name)
PushString(name) ==
    /\ Running
    /\ Len(stack) < MaxDepth
    /\ \E r \in UseAfterFree([res |-> "Ok", w |-> [W EXCEPT !.st = push_string(stack, name)]],
                              heap.destroyed) :
           /\ Commit(r.res, r.w)
           /\ last' = Op("push_string", "String", Len(stack), r.res,
                         [ty |-> "String", s |-> name], NoErr)

\* ctx.call_prop(obj_id, n_args); the key and the arguments are on the stack.
CallProp(obj_id, n_args) ==
    /\ Running
    /\ Len(stack) >= n_args + 1
    /\ \E r0 \in {call_prop(obj_id, n_args, W)} :
       \E r \in UseAfterFree(r0, r0.w.heap.destroyed) :
           /\ SumsBounded(r.w.st)
           /\ r.w.heap.destroyed <= MaxDestroys
           /\ Commit(r.res, r.w)
           /\ last' = [op |-> "call_prop", ty |-> r.fn, idx |-> obj_id, res |-> r.res,
                        val |-> Nil, err |-> IF r.res = "Err" THEN ErrorMessage ELSE NoErr,
                        d0 |-> Len(stack), rv |-> r.rv, called |-> r.called, recv |-> r.recv,
                        script |-> Nil, frame |-> r.frame]

NextMethod ==
    \/ \E v \in MethodValues : Push(v)
    \/ \E name \in PropNames : PushString(name)
    \/ \E obj_id \in Indices, n_args \in ArgCounts : CallProp(obj_id, n_args)
    \/ \E idx \in Indices : Peek("u32", idx)
    \/ Pop("()")

SpecMethod == Init /\ [][NextMethod]_vars

\* C20: push_to of a derived record with an allow-list leaves exactly one
\* new object at the returned index, with every field bound under its key
\* and every allow-listed name bound to the function of the snake-case
\* method; and calling that property on the object returns the method's
\* result on the object's fields (sumFields on {a: 4, b: 2} gives 6).
C20_MethodsBound ==
    [][/\ (last'.op = "push_to" /\ last'.ty = "Test") =>
            /\ last'.res = "Ok"
            /\ Len(stack') = Len(stack) + 1
            /\ last'.idx = Len(stack)
            /\ SubSeq(stack', 1, Len(stack)) = stack
            /\ slot(stack', last'.idx) =
                   DukObject([k \in {as_bytes("a"), as_bytes("b"), as_bytes("sumFields")} |->
                       CASE k = as_bytes("a") -> DukNumber(last'.val.f[1].n)
                         [] k = as_bytes("b") -> DukNumber(last'.val.f[2].n)
                         [] OTHER -> DukFunction("sum_fields", 0)])
       /\ (/\ last'.op = "call_prop"
           /\ Len(stack) = 2
           /\ stack[1].t = "object"
           /\ stack[2] = DukString("sumFields")
           /\ last'.idx = 0) =>
            /\ last'.res = "Ok"
            /\ last'.called
            /\ stack' = <<stack[1],
                          DukNumber(stack[1].p[as_bytes("a")].n + stack[1].p[as_bytes("b")].n)>>
      ]_vars

\* C21: a free-function trampoline that ran its function on a stack of
\* depth n >= k (k declared arguments) and returned has removed all k
\* argument slots: the depth is n - k + r, r the returned count, and when
\* r = 1 the encoded result is on top.
C21_ArgumentsRemoved ==
    [][(/\ last'.op = "call_function" /\ last'.res = "Ok" /\ last'.called
        /\ heap.destroyed = 0
        /\ args_count(FnOf(last'.ty)) >= 1
        /\ Len(stack) >= args_count(FnOf(last'.ty))) =>
            /\ Len(stack') = Len(stack) - args_count(FnOf(last'.ty)) + last'.rv
            /\ last'.rv = return_count(FnOf(last'.ty))]_vars

\* C22: a method trampoline with k declared arguments, entered on a frame
\* of depth n, has removed the receiver it pushed and all k argument slots
\* before the method runs, so on return the frame's depth is n - k + r, r
\* the result count.  The engine enters a non-vararg method with n = k.
C22_ReceiverRemoved ==
    [][(/\ last'.op = "call_prop" /\ last'.called /\ last'.res = "Ok"
        /\ heap.destroyed = 0) =>
            /\ last'.rv = return_count(MethodOf(last'.ty))
            /\ Len(last'.frame) = last'.rv]_vars

\* The native value a pushed slot stands for, for the argument types of the
\* wrapped functions.
ValueOfSlot(ty, v) ==
    CASE ty = "u32" -> [ty |-> "u32", n |-> v.n]
      [] ty = "Pdo" -> [ty |-> "Pdo",
                        f |-> <<[ty |-> "String", s |-> v.p[as_bytes("data")].s],
                                [ty |-> "u32", n |-> v.p[as_bytes("counter")].n]>>]

\* C23: a trampoline of a function with k declared arguments, entered with
\* v0 .. v(k-1) as the top k slots in that order, passes v_i as the i-th
\* declared argument, decoded from offset -k+i; called from a script, the
\* vararg form receives the script's arguments in order.
C23_ArgumentOrder ==
    [][/\ (/\ last'.op = "call_function" /\ last'.called /\ heap.destroyed = 0
            /\ args_count(FnOf(last'.ty)) >= 1
            /\ Len(stack) >= args_count(FnOf(last'.ty))) =>
               LET f == FnOf(last'.ty)
                   k == args_count(f)
               IN  /\ Len(last'.recv) = k
                   /\ \A j \in 1 .. k :
                          last'.recv[j] = ValueOfSlot(f.args[j], stack[Len(stack) - k + j])
       /\ (/\ last'.op = "eval" /\ last'.called /\ heap.destroyed = 0
            /\ last'.ty = "BlaVararg"
            /\ Len(last'.script.args) >= 2) =>
               LET n == Len(last'.script.args)
               IN  last'.recv = <<[ty |-> "u32", n |-> last'.script.args[n - 1]],
                                  [ty |-> "u32", n |-> last'.script.args[n]]>>
      ]_vars

\* The adder test: 1 and 2 were pushed in that order and bla received
\* a = 1, b = 2 and left their sum on top.
C23_Witness ==
    /\ last.op = "call_function" /\ last.ty = "Bla" /\ last.called /\ last.res = "Ok"
    /\ last.recv = <<[ty |-> "u32", n |-> 1], [ty |-> "u32", n |-> 2]>>
    /\ slot(stack, -1) = DukNumber(3)

\* C24: the arity a marker type reports to the engine is -1 exactly when
\* the function was declared vararg, and otherwise the number of declared
\* arguments, the context parameter not counted: every registered
\* function carries that arity.
C24_ReportedArity ==
    \A name \in DOMAIN globals :
        LET f == FnOf(globals[name].f)
        IN  globals[name].nargs = IF f.vararg THEN -1 ELSE args_count(f)

(***************************************************************************)
(* SpecDerived: the host pushes derived records, assembles objects that    *)
(* carry some of a record's properties, and reads them as derived records. *)
(***************************************************************************)
\* push_object, then for each <<name, value>> a push of the value and
\* put_prop_string(idx, name).
RECURSIVE put_props(_, _, _)
put_props(st, idx, props) ==
    IF props = <<>> THEN st
    ELSE put_props(put_prop_string(push_value(st, props[1][2]), idx, props[1][1]),
                   idx, Tail(props))
push_assembled(st, props) == put_props(push_object(st), Len(st), props)

AssembledProps ==
    {<<>>,
     <<<<"a", DukNumber(1)>>>>,
     <<<<"b", DukNumber(2)>>>>,
     <<<<"a", DukString("x")>>, <<"b", DukNumber(2)>>>>,
     <<<<"a", DukNumber(1)>>, <<"b", DukString("x")>>>>,
     <<<<"counter", DukNumber(3)>>>>}

DerivedRecords ==
    {[ty |-> "Test", f |-> <<[ty |-> "u32", n |-> 4], [ty |-> "u32", n |-> 2]>>],
     [ty |-> "Pdo", f |-> <<[ty |-> "String", s |-> "hello"], [ty |-> "u32", n |-> 3]>>],
     [ty |-> "ObjArr", f |-> <<[ty |-> "Vec<u8>", e |-> <<[ty |-> "u8", n |-> 0]>>]>>]}
DerivedPeekTypes == {"Test", "Pdo", "ObjArr"}

\* the host assembles an object property by property
PushAssembled(props) ==
    /\ Running
    /\ Len(stack) < MaxDepth
    /\ Commit("Ok", [W EXCEPT !.st = push_assembled(stack, props)])
    /\ last' = Op("push_assembled", "", Len(stack), "Ok", Nil, NoErr)

NextDerived ==
    \/ \E v \in DerivedRecords : Push(v)
    \/ \E props \in AssembledProps : PushAssembled(props)
    \/ \E ty \in DerivedPeekTypes, idx \in Indices : Peek(ty, idx)
    \/ Pop("()")

SpecDerived == Init /\ [][NextDerived]_vars

\* Field i of record type ty is bound in the object o; its value decodes.
FieldFound(ty, i, o) == prop_name(Fields(ty)[i]) \in DOMAIN o.p
FieldDecodes(ty, i, o) ==
    /\ FieldFound(ty, i, o)
    /\ pop(Fields(ty)[i].ty, World(<<o.p[prop_name(Fields(ty)[i])]>>, strong, handles, heap)).res = "Ok"
FirstBad(ty, o) ==
    LET bad == {i \in 1 .. Len(Fields(ty)) : ~FieldDecodes(ty, i, o)}
    IN  IF bad = {} THEN 0 ELSE CHOOSE i \in bad : \A j \in bad : i <= j

\* C25: peek_at of a derived record on an object takes the fields in
\* declaration order: it returns Ok exactly when every field is found and
\* decodes; when the first field that is not both is missing, it returns
\* Err(Prop(name of that field)) whatever the later fields are; when that
\* field is found and fails to decode, the read fails.
C25_FirstMissingField ==
    [][(/\ last'.op = "peek_at" /\ last'.ty \in DerivedPeekTypes
        /\ is_valid_index(stack, last'.idx)
        /\ slot(stack, last'.idx).t = "object") =>
            LET o == slot(stack, last'.idx)
                b == FirstBad(last'.ty, o)
            IN  /\ (b = 0) <=> (last'.res = "Ok")
                /\ (b /= 0 /\ ~FieldFound(last'.ty, b, o)) =>
                       /\ last'.res = "Err"
                       /\ last'.err = PeekErrorProp(Fields(last'.ty)[b].name)
                /\ (b /= 0 /\ FieldFound(last'.ty, b, o)) => last'.res \in {"Err", "Throw"}
      ]_vars

\* An object with a but without b was read as Test: the error names b.
C25_Witness ==
    /\ last.op = "peek_at" /\ last.ty = "Test" /\ last.res = "Err"
    /\ last.err = PeekErrorProp("b")
    /\ Len(stack) = 2 /\ stack[1].t = "object"
    /\ as_bytes("a") \in DOMAIN stack[1].p

(***************************************************************************)
(* SpecSer: one SerdeValue::push_to followed call by call.  The Serialize  *)
(* impl of the value drives the serializer: serialize_struct, then for     *)
(* each field the field's own serialize and the binding of                 *)
(* SerializeStruct::serialize_field, then end; serialize_seq, then for     *)
(* each element its serialize and the binding of                           *)
(* SerializeSeq::serialize_element, then end.  ser.todo is the rest of     *)
(* that call sequence, ser.objects the serializer's `objects`, ser.seqs    *)
(* the open DuktapeSeqSerializers (obj_id, array_idx), innermost last.     *)
(***************************************************************************)
RECURSIVE Plan(_)
RECURSIVE PlanFields(_, _, _)
RECURSIVE PlanElements(_, _)
PlanFields(ty, f, i) ==
    IF i > Len(f) THEN <<>>
    ELSE Plan(f[i]) \o <<[op |-> "field", key |-> Fields(ty)[i].name]>> \o PlanFields(ty, f, i + 1)
PlanElements(e, i) ==
    IF i > Len(e) THEN <<>>
    ELSE Plan(e[i]) \o <<[op |-> "element"]>> \o PlanElements(e, i + 1)
Plan(v) ==
    CASE v.ty \in SeqTypes \cup RecordSeqTypes ->
            <<[op |-> "seq"]>> \o PlanElements(v.e, 1) \o <<[op |-> "end_seq"]>>
      [] v.ty \in SerdeRecordTypes ->
            <<[op |-> "struct"]>> \o PlanFields(v.ty, v.f, 1) \o <<[op |-> "end_struct"]>>
      [] OTHER -> <<[op |-> "value", v |-> v]>>

RecT(s, n) == [ty |-> "T", f |-> <<[ty |-> "String", s |-> s], [ty |-> "u32", n |-> n]>>]
Bytes(e) == [ty |-> "Vec<u8>", e |-> [i \in 1 .. Len(e) |-> [ty |-> "u8", n |-> e[i]]]]
SerValues ==
    {[ty |-> "u32", n |-> 7],
     RecT("world", 42),
     Bytes(<<>>), Bytes(<<0, 255>>),
     [ty |-> "ObjData", f |-> <<Bytes(<<0, 1>>)>>],
     [ty |-> "Vec<T>", e |-> <<RecT("a", 1), RecT("b", 2)>>]}

SerOp(op) == [op |-> op, ty |-> "", idx |-> 0, res |-> "Ok", val |-> Nil, err |-> NoErr,
              d0 |-> Len(stack)]
SerStep(op) ==
    /\ Running
    /\ ser.active
    /\ ser.todo /= <<>>
    /\ ser.todo[1].op = op
    /\ last' = [SerOp(op) EXCEPT !.val = IF op = "value" THEN ser.todo[1].v ELSE Nil]
    /\ UNCHANGED <<strong, handles, globals, aborted, heap>>

\* SerdeValue::push_to: DuktapeSerializer::from_ctx(ctx), objects empty
PushBegin(v) ==
    /\ Running
    /\ ~ser.active
    /\ Len(stack) < MaxDepth
    /\ ser' = [objects |-> <<>>, seqs |-> <<>>, todo |-> Plan(v), active |-> TRUE,
               d0 |-> Len(stack), v |-> v]
    /\ last' = [SerOp("push_begin") EXCEPT !.ty = v.ty, !.val = v]
    /\ UNCHANGED <<stack, strong, handles, globals, aborted, heap>>

\* Serializer::serialize_struct
SerializeStruct ==
    /\ SerStep("struct")
    /\ \E r \in {serialize_struct(stack, ser.objects)} :
           /\ stack' = r.st
           /\ ser' = [ser EXCEPT !.objects = r.objects, !.todo = Tail(@)]

\* Serializer::serialize_seq: the DuktapeSeqSerializer starts at array_idx 0
SerializeSeq ==
    /\ SerStep("seq")
    /\ \E r \in {serialize_seq(stack, ser.objects)} :
           /\ stack' = r.st
           /\ ser' = [ser EXCEPT !.objects = r.objects, !.todo = Tail(@),
                                 !.seqs = Append(@, [obj_id |-> Len(stack), array_idx |-> 0])]

\* Serializer::serialize_u32, serialize_str, ..: a value that is no container
SerializeValue ==
    /\ SerStep("value")
    /\ \E r \in {serialize(ser.todo[1].v, stack, ser.objects)} :
           /\ r.ok
           /\ stack' = r.st
           /\ ser' = [ser EXCEPT !.objects = r.objects, !.todo = Tail(@)]

\* SerializeStruct::serialize_field, after value.serialize returned:
\* put_prop_string(*self.objects.last().unwrap(), key)
SerializeField ==
    /\ SerStep("field")
    /\ stack' = put_prop_string(stack, ser.objects[Len(ser.objects)], ser.todo[1].key)
    /\ ser' = [ser EXCEPT !.todo = Tail(@)]

\* SerializeSeq::serialize_element, after value.serialize returned:
\* put_prop_index(self.obj_id, self.array_idx); self.array_idx += 1
SerializeElement ==
    /\ SerStep("element")
    /\ LET q == ser.seqs[Len(ser.seqs)]
       IN  /\ stack' = put_prop_index(stack, q.obj_id, q.array_idx)
           /\ ser' = [ser EXCEPT !.todo = Tail(@),
                                 !.seqs[Len(ser.seqs)].array_idx = @ + 1]

\* SerializeStruct::end
SerializeStructEnd ==
    /\ SerStep("end_struct")
    /\ \E r \in {serialize_end(stack, ser.objects)} :
           /\ stack' = r.st
           /\ ser' = [ser EXCEPT !.objects = r.objects, !.todo = Tail(@)]

\* SerializeSeq::end; the DuktapeSeqSerializer is consumed
SerializeSeqEnd ==
    /\ SerStep("end_seq")
    /\ \E r \in {serialize_end(stack, ser.objects)} :
           /\ stack' = r.st
           /\ ser' = [ser EXCEPT !.objects = r.objects, !.todo = Tail(@),
                                 !.seqs = SubSeq(@, 1, Len(@) - 1)]

\* SerdeValue::push_to returns ctx.stack_top(); the serializer is dropped
PushEnd ==
    /\ Running
    /\ ser.active
    /\ ser.todo = <<>>
    /\ ser' = [ser EXCEPT !.active = FALSE, !.objects = <<>>, !.seqs = <<>>]
    /\ last' = [SerOp("push_end") EXCEPT !.idx = stack_top(stack)]
    /\ UNCHANGED <<stack, strong, handles, globals, aborted, heap>>

NextSer ==
    \/ \E v \in SerValues : PushBegin(v)
    \/ SerializeStruct
    \/ SerializeSeq
    \/ SerializeValue
    \/ SerializeField
    \/ SerializeElement
    \/ SerializeStructEnd
    \/ SerializeSeqEnd
    \/ PushEnd
    \/ (~ser.active /\ Pop("()"))

SpecSer == Init /\ [][NextSer]_vars

\* The containers being encoded, by the calls still to come: every
\* end in the rest of the call sequence that no later open matches.
RECURSIVE OpenCount(_, _)
OpenCount(todo, depth) ==
    IF todo = <<>> THEN 0
    ELSE CASE todo[1].op \in {"struct", "seq"} -> OpenCount(Tail(todo), depth + 1)
           [] todo[1].op \in {"end_struct", "end_seq"} ->
                 IF depth = 0 THEN 1 + OpenCount(Tail(todo), 0)
                 ELSE OpenCount(Tail(todo), depth - 1)
           [] OTHER -> OpenCount(Tail(todo), depth)

\* C26: while a value is encoded through the bridge, `objects` holds one
\* entry per container being encoded, innermost last, each the stack index
\* of its container; a field is bound in the innermost open record and
\* element i of a sequence at index i of its own array, nothing else
\* changing; when the encode is finished the list is empty and the stack
\* has grown by exactly one slot, the one SerdeValue::push_to builds.
C26_OpenContainers ==
    [][/\ ser'.active =>
            /\ Len(ser'.objects) = OpenCount(ser'.todo, 0)
            /\ \A i \in 1 .. Len(ser'.objects) :
                   /\ ser'.objects[i] >= ser'.d0
                   /\ ser'.objects[i] < Len(stack')
                   /\ stack'[ser'.objects[i] + 1].t \in {"object", "array"}
                   /\ i > 1 => ser'.objects[i - 1] < ser'.objects[i]
       /\ last'.op = "field" =>
            LET o == ser.objects[Len(ser.objects)]
            IN  /\ stack[o + 1].t = "object"
                /\ \A j \in (o + 1) .. (Len(stack) - 2) : stack[j + 1].t \notin {"object", "array"}
                /\ Len(stack') = Len(stack) - 1
                /\ stack' = [SubSeq(stack, 1, Len(stack) - 1) EXCEPT ![o + 1].p =
                                PutKey(@, as_bytes(ser.todo[1].key), stack[Len(stack)])]
       /\ last'.op = "element" =>
            LET o == ser.objects[Len(ser.objects)]
            IN  /\ stack[o + 1].t = "array"
                /\ Len(stack') = Len(stack) - 1
                /\ stack' = [SubSeq(stack, 1, Len(stack) - 1) EXCEPT ![o + 1].e =
                                Append(@, stack[Len(stack)])]
       /\ (ser'.active /\ ser'.todo = <<>>) =>
            /\ ser'.objects = <<>>
            /\ Len(stack') = ser'.d0 + 1
       /\ last'.op = "push_end" =>
            \E r \in {SerdeValue_push_to(ser.v, World(SubSeq(stack, 1, ser.d0), strong, handles, heap))} :
               /\ r.res = "Ok"
               /\ stack = r.w.st
               /\ last'.idx = r.ret
      ]_vars

\* A record inside a sequence is being encoded: two containers are open.
C26_Witness ==
    /\ ser.active
    /\ Len(ser.objects) = 2
    /\ stack[ser.objects[1] + 1].t = "array"
    /\ stack[ser.objects[2] + 1].t = "object"
    /\ Len(stack[ser.objects[1] + 1].e) = 1
    /\ last.op = "field"

\* Running the script fails: its callee is unbound, or the call raises an
\* engine error or returns a negative status before the function runs.
RunFails(script, g) ==
    /\ script.callee /= "+"
    /\ \/ script.callee \notin DOMAIN g
       \/ g[script.callee].f \in {"Bla", "DoIt"}
       \/ g[script.callee].f = "BlaVararg" /\ Len(script.args) < 2

MaxStrong == 3

RcRecord(a) == [ty |-> "ObjRc", f |-> <<RcHandle(a)>>]
RecordAllocs == {a \in Allocs : AllocType(a) = "Vec<u8>"}

\* The allocation whose pointer the slot carries, directly or in field t.
HeldBy(v) ==
    IF v.t /= "object" THEN {}
    ELSE {a \in Allocs : \/ IsWrapperOf(v, a)
                          \/ /\ as_bytes("t") \in DOMAIN v.p
                             /\ IsWrapperOf(v.p[as_bytes("t")], a)}

\* A read or a drop through a pointer to an allocation that is freed
\* already is a use after free.
FreedUse(r, as) == IF \E a \in as : strong[a] = 0 THEN {r, [r EXCEPT !.res = "Crash"]} ELSE {r}

\* ctx.push(ObjRc { t: rc }) of a handle the host owns
RecordPush(a) ==
    /\ Running
    /\ handles[a] >= 1
    /\ Len(stack) < MaxDepth
    /\ \E r \in {push_to(RcRecord(a), W)} :
           /\ Commit(r.res, r.w)
           /\ last' = Op("push_to", "ObjRc", r.ret, r.res, RcRecord(a), NoErr)

\* ctx.peek::<ObjRc>(idx)
RecordPeek(idx) ==
    /\ Running
    /\ is_valid_index(stack, idx)
    /\ \E r0 \in {peek_at("ObjRc", W, idx)} : \E r \in FreedUse(r0, HeldBy(slot(stack, idx))) :
           /\ \A a \in Allocs : r.w.handles[a] <= MaxHandles
           /\ Commit(r.res, r.w)
           /\ last' = Op("peek_at", "ObjRc", idx, r.res, r.val, r.err)

\* ctx.pop_value::<Option<Rc<T>>>()
RcPopOption(ty) ==
    /\ Running
    /\ Len(stack) >= 1
    /\ \E r0 \in {pop(ty, W)} : \E r \in FreedUse(r0, HeldBy(slot(stack, -1))) :
           /\ \A a \in Allocs : r.w.handles[a] <= MaxHandles /\ r.w.strong[a] <= MaxStrong
           /\ Commit(r.res, r.w)
           /\ last' = Op("pop", ty, -1, r.res, r.val, r.err)

\* drop of a handle, or of a record that holds it; the count of an
\* allocation that is freed already is not followed further
HandleDrop(a) ==
    /\ Running
    /\ handles[a] >= 1
    /\ \E r \in FreedUse([res |-> "Ok",
                           w |-> IF strong[a] = 0 THEN [W EXCEPT !.handles[a] = @ - 1]
                                                  ELSE Rc_drop(W, a)], {a}) :
           /\ Commit(r.res, r.w)
           /\ last' = Op("drop", RcHandle(a).ty, 0, r.res, RcHandle(a), NoErr)

NextRcNested ==
    \/ \E a \in Allocs : RcPush(a)
    \/ \E a \in RecordAllocs : RecordPush(a)
    \/ \E idx \in Indices : RecordPeek(idx)
    \/ \E ty \in OptionRcTypes : RcPopOption(ty)
    \/ \E a \in Allocs : HandleDrop(a)
    \/ Pop("()")

SpecRcNested == Init /\ [][NextRcNested]_vars

\* C28: a successful peek_at of a derived record with an Rc field leaves
\* the object in place and raises the strong count of the field's
\* allocation by one, the object keeping its own reference; so no
\* allocation whose pointer an object on the stack holds is ever freed.
C28_RecordPeekCounts ==
    [][/\ (last'.op = "peek_at" /\ last'.ty = "ObjRc" /\ last'.res = "Ok") =>
            /\ stack' = stack
            /\ strong'[last'.val.f[1].a] = strong[last'.val.f[1].a] + 1
       /\ \A i \in 1 .. Len(stack') : \A a \in HeldBy(stack'[i]) : strong'[a] >= 1
      ]_vars

\* C29: a successful pop as Option<Rc<T>> of a handle wrapper takes over
\* the reference of the slot: the slot is gone, the host has one more
\* handle and the strong count is what it was.
C29_OptionPopCounts ==
    [][(/\ last'.op = "pop" /\ last'.ty \in OptionRcTypes /\ last'.res = "Ok"
        /\ IsWrapper(slot(stack, -1))) =>
            /\ last'.val.some
            /\ stack' = pop_it(stack)
            /\ handles'[last'.val.v.a] = handles[last'.val.v.a] + 1
            /\ strong'[last'.val.v.a] = strong[last'.val.v.a]
      ]_vars

\* C30: whenever peek_at returns an error, the stack depth after the call
\* equals the depth before it: no looked-up property value is left on the
\* stack.
C30_PeekErrorKeepsDepth ==
    [][(last'.op = "peek_at" /\ last'.res = "Err") => Len(stack') = Len(stack)]_vars

=============================================================================
